---- MODULE Spec2Model ----
(***************************************************************************)
(* Minesweeper: mine-placement generator, structural validators, safe-zone *)
(* flood fill and the runtime reveal engine.                               *)
(*                                                                         *)
(* Coordinates are pairs <<x, y>>, 0-based as in the source.  The source   *)
(* keys its sets and maps by the strings `${x},${y}` (floodfill.ts,        *)
(* gameMaker) and `${x}-${y}` (the cell store); both formats are one-to-one*)
(* on pairs of integers and each collection is written and read with one   *)
(* format only, so a key is modelled by the pair it names.                 *)
(*                                                                         *)
(* Ratios (0.08, 0.3, 0.15, 0.8) are pairs <<numerator, denominator>>;     *)
(* Math.floor(n * ratio) is integer division, which agrees with the IEEE   *)
(* double product for every n below 500 (2000 for 0.08).                   *)
(***************************************************************************)
EXTENDS Integers, Sequences, FiniteSets, TLC

VARIABLES
    GameGrid,   \* board.tsx:445  module-level grid, kept from game to game
    cells,      \* components/board.tsx:22,91  the cell store: cellState of every mounted cell
    gameState,  \* components/board.tsx:24  {initialized, ended, difficulty}
    timers,     \* board.utils.ts:116  deferred first reveals not yet run (FIFO)
    call,       \* activation of GenerateGameState: position, locals
    last,       \* the handler that ran last and what it did (history)
    args,       \* inputs of the pure function under check
    ret         \* its result

vars == <<GameGrid, cells, gameState, timers, call, last, args, ret>>

----------------------------------------------------------------------------
(* Constants of the source *)

ALL_DIRECTIONS ==
    << <<0, 1>>, <<1, 1>>, <<1, 0>>, <<1, -1>>, <<0, -1>>, <<-1, -1>>, <<-1, 0>>, <<-1, 1>> >>
CARDINAL_DIRECTIONS == << <<0, 1>>, <<1, 0>>, <<0, -1>>, <<-1, 0>> >>
ADJACENT_DIRECTIONS == ALL_DIRECTIONS
SAFE_CELL_RATIO == <<8, 100>>
MAX_SAFE_CELLS == 20
MIN_EDGE_MINE_RATIO == <<15, 100>>
MIN_CONNECTED_MINE_RATIO == <<8, 10>>
MAX_GENERATION_ATTEMPTS == 50
EDGE_MINE_RATIO == <<3, 10>>

\* Math.floor(n * ratio)
floorMul(n, ratio) == (n * ratio[1]) \div ratio[2]

Min(a, b) == IF a < b THEN a ELSE b
Max(a, b) == IF a > b THEN a ELSE b

\* The difficulty table as shipped.
difficultySettings ==
    [easy   |-> [width |-> 16, height |-> 16, mines |-> 40],
     medium |-> [width |-> 20, height |-> 16, mines |-> 70],
     hard   |-> [width |-> 28, height |-> 16, mines |-> 110]]

AllCells(width, height) == (0 .. width - 1) \X (0 .. height - 1)

\* The coordinates a handler is called with: the board and the ring around it
Coordinates(width, height) == (-1 .. width) \X (-1 .. height)

\* Mutant: the upper bounds nx < width, ny < height forgotten.
inBounds_noUpper(c, width, height) == c[1] >= 0 /\ c[2] >= 0

\* nx >= 0 && nx < width && ny >= 0 && ny < height
inBounds(c, width, height) ==
    c[1] >= 0 /\ c[1] < width /\ c[2] >= 0 /\ c[2] < height
step(c, d) == <<c[1] + d[1], c[2] + d[2]>>

----------------------------------------------------------------------------
(* getSafeCells: floodfill.ts:45-76 *)

\* Mutant: the cap MAX_SAFE_CELLS forgotten.
targetSafeCount_uncapped(totalCells) == floorMul(totalCells, SAFE_CELL_RATIO)

\* Mutant: half the target.
targetSafeCount_halved(totalCells) ==
    Min(floorMul(totalCells, SAFE_CELL_RATIO), MAX_SAFE_CELLS) \div 2

targetSafeCount(totalCells) == Min(floorMul(totalCells, SAFE_CELL_RATIO), MAX_SAFE_CELLS)

\* The for loop over CARDINAL_DIRECTIONS from index i on, for the dequeued
\* cell cur; the break leaves the loop as soon as the target is reached.
RECURSIVE safeDirections(_, _, _, _, _, _, _)
safeDirections(cur, i, safeCells, queue, target, width, height) ==
    IF i > Len(CARDINAL_DIRECTIONS) THEN [safeCells |-> safeCells, queue |-> queue]
    ELSE LET n == step(cur, CARDINAL_DIRECTIONS[i])
         IN  IF inBounds(n, width, height) /\ n \notin safeCells
             THEN LET s2 == safeCells \cup {n}
                      q2 == Append(queue, n)
                  IN  IF Cardinality(s2) >= target
                      THEN [safeCells |-> s2, queue |-> q2]
                      ELSE safeDirections(cur, i + 1, s2, q2, target, width, height)
             ELSE safeDirections(cur, i + 1, safeCells, queue, target, width, height)

\* The while loop: queue.length && safeCells.size < targetSafeCount
RECURSIVE safeLoop(_, _, _, _, _)
safeLoop(safeCells, queue, target, width, height) ==
    IF Len(queue) = 0 \/ Cardinality(safeCells) >= target THEN safeCells
    ELSE LET r == safeDirections(Head(queue), 1, safeCells, Tail(queue), target, width, height)
         IN  safeLoop(r.safeCells, r.queue, target, width, height)

getSafeCells(startX, startY, width, height, totalCells) ==
    safeLoop({<<startX, startY>>}, << <<startX, startY>> >>,
             targetSafeCount(totalCells), width, height)

----------------------------------------------------------------------------
(* Grids: Array<Array<number | string>>, indexed grid[y][x] *)

\* The mine marker "M" of a grid cell; the other cells hold the numbers 0..8.
M == -1

\* Array.from({ length: height }, () => Array(width).fill(0)) with "M" written
\* at every coordinate of placedMines
gridOf(width, height, placedMines) ==
    [y \in 0 .. height - 1 |->
        [x \in 0 .. width - 1 |-> IF <<x, y>> \in placedMines THEN M ELSE 0]]

\* The cells in the order of the loops "for y ... for x ..."
rowMajor(width, height) ==
    [i \in 1 .. width * height |-> <<(i - 1) % width, (i - 1) \div width>>]

minesOf(grid, width, height) == {c \in AllCells(width, height) : grid[c[2]][c[1]] = M}
emptiesOf(grid, width, height) == {c \in AllCells(width, height) : grid[c[2]][c[1]] # M}

isEdge(c, width, height) ==
    c[1] = 0 \/ c[1] = width - 1 \/ c[2] = 0 \/ c[2] = height - 1

----------------------------------------------------------------------------
(* areEmptyCellsConnected: floodfill.ts:78-122 *)

\* Mutant: the walk also steps diagonally.
emptyDirections_diagonal == ALL_DIRECTIONS

emptyDirections == CARDINAL_DIRECTIONS

\* The for loop over the directions from index i on; returned is set by the
\* "return true" inside the loop.
RECURSIVE emptyDirs(_, _, _, _, _, _, _, _)
emptyDirs(cur, i, visited, queue, total, grid, width, height) ==
    IF i > Len(emptyDirections)
    THEN [visited |-> visited, queue |-> queue, returned |-> FALSE]
    ELSE LET n == step(cur, emptyDirections[i])
         IN  IF inBounds(n, width, height) /\ n \notin visited /\ grid[n[2]][n[1]] # M
             THEN LET v2 == visited \cup {n}
                      q2 == Append(queue, n)
                  IN  IF Cardinality(v2) >= total
                      THEN [visited |-> v2, queue |-> q2, returned |-> TRUE]
                      ELSE emptyDirs(cur, i + 1, v2, q2, total, grid, width, height)
             ELSE emptyDirs(cur, i + 1, visited, queue, total, grid, width, height)

\* while (queue.length && visited.size < totalEmptyCells), then the final
\* "return visited.size === totalEmptyCells"
RECURSIVE emptyLoop(_, _, _, _, _, _)
emptyLoop(visited, queue, total, grid, width, height) ==
    IF Len(queue) = 0 \/ Cardinality(visited) >= total
    THEN Cardinality(visited) = total
    ELSE LET r == emptyDirs(Head(queue), 1, visited, Tail(queue), total, grid, width, height)
         IN  IF r.returned THEN TRUE
             ELSE emptyLoop(r.visited, r.queue, total, grid, width, height)

areEmptyCellsConnected(grid, width, height) ==
    LET order == rowMajor(width, height)
        empty == {i \in 1 .. width * height : grid[order[i][2]][order[i][1]] # M}
        totalEmptyCells == Cardinality(empty)
    IN  IF totalEmptyCells = 0 THEN TRUE
        ELSE LET first == order[CHOOSE i \in empty : \A j \in empty : i <= j]
             IN  emptyLoop({first}, <<first>>, totalEmptyCells, grid, width, height)

----------------------------------------------------------------------------
(* doMinesHaveEdgePath: floodfill.ts:124-170 *)

\* Mutant: the relaxed check accepts every layout.
minConnected_none(mineCount) == 0

\* Math.floor(minePositions.length * MIN_CONNECTED_MINE_RATIO)
minConnected(mineCount) == floorMul(mineCount, MIN_CONNECTED_MINE_RATIO)

\* Math.max(1, Math.floor(minePositions.length * MIN_EDGE_MINE_RATIO))
minEdgeMines(mineCount) == Max(1, floorMul(mineCount, MIN_EDGE_MINE_RATIO))

RECURSIVE edgeDirs(_, _, _, _, _, _, _)
edgeDirs(cur, i, connected, queue, minePositions, width, height) ==
    IF i > Len(ALL_DIRECTIONS) THEN [connected |-> connected, queue |-> queue]
    ELSE LET n == step(cur, ALL_DIRECTIONS[i])
         IN  IF inBounds(n, width, height) /\ n \in minePositions /\ n \notin connected
             THEN edgeDirs(cur, i + 1, connected \cup {n}, Append(queue, n),
                           minePositions, width, height)
             ELSE edgeDirs(cur, i + 1, connected, queue, minePositions, width, height)

\* while (queue.length && edgeConnectedMines.size < minePositions.length)
RECURSIVE edgeLoop(_, _, _, _, _)
edgeLoop(connected, queue, minePositions, width, height) ==
    IF Len(queue) = 0 \/ Cardinality(connected) >= Cardinality(minePositions)
    THEN connected
    ELSE LET r == edgeDirs(Head(queue), 1, connected, Tail(queue), minePositions, width, height)
         IN  edgeLoop(r.connected, r.queue, minePositions, width, height)

doMinesHaveEdgePath(grid, width, height) ==
    LET order == rowMajor(width, height)
        isMine(c) == grid[c[2]][c[1]] = M
        minePositions == SelectSeq(order, isMine)
        onEdge(c) == isEdge(c, width, height)
        edgeMines == SelectSeq(minePositions, onEdge)
        mineSet == {minePositions[i] : i \in 1 .. Len(minePositions)}
        edgeSet == {edgeMines[i] : i \in 1 .. Len(edgeMines)}
    IN  IF Len(minePositions) = 0 THEN TRUE
        ELSE IF Len(edgeMines) >= minEdgeMines(Len(minePositions)) THEN TRUE
        ELSE Cardinality(edgeLoop(edgeSet, edgeMines, mineSet, width, height))
                >= minConnected(Len(minePositions))

----------------------------------------------------------------------------
(* The boards explored.  The shipped table (difficultySettings) is far too *)
(* large to enumerate mine layouts on, so the state machine runs on a table*)
(* of the same shape with small boards:                                    *)
(*   easy   3x2,  2 mines: sparse, zero-valued cells and floods;           *)
(*   medium 4x3, 10 mines: dense, a mine can have 8 mine neighbours;       *)
(*   hard   5x5,  2 mines: the safe zone has 2 cells (floor(25 * 0.08)).   *)
(* Each keeps the invariant mines < width * height - safe zone size.       *)

boardSettings ==
    [easy   |-> [width |-> 3, height |-> 2, mines |-> 2],
     medium |-> [width |-> 4, height |-> 3, mines |-> 10],
     hard   |-> [width |-> 5, height |-> 5, mines |-> 2]]

----------------------------------------------------------------------------
(* getValueAt, countAdjacentMines: board.tsx:445-457.  Both read the       *)
(* module-level GameGrid; the grid they read is passed explicitly here, and*)
(* every use below passes the value GameGrid has at that point of the code.*)

\* the null that getValueAt returns outside the grid
null == -2

getValueAt(grid, x, y) ==
    IF y < 0 \/ y >= Cardinality(DOMAIN grid) \/ x < 0 \/ x >= Cardinality(DOMAIN grid[0])
    THEN null
    ELSE grid[y][x]

RECURSIVE countFrom(_, _, _, _)
countFrom(grid, x, y, i) ==
    IF i > Len(ADJACENT_DIRECTIONS) THEN 0
    ELSE (IF getValueAt(grid, x + ADJACENT_DIRECTIONS[i][1], y + ADJACENT_DIRECTIONS[i][2]) = M
          THEN 1 ELSE 0)
         + countFrom(grid, x, y, i + 1)

\* A count over the four cardinal neighbours only
countAdjacentMines_cardinal(grid, x, y) ==
    Cardinality({i \in 1 .. Len(CARDINAL_DIRECTIONS) :
        getValueAt(grid, x + CARDINAL_DIRECTIONS[i][1], y + CARDINAL_DIRECTIONS[i][2]) = M})

countAdjacentMines(grid, x, y) == countFrom(grid, x, y, 1)

----------------------------------------------------------------------------
(* Mine placement of one attempt: board.tsx:467-499.  The random draws are *)
(* the choice of the cells drawn; placeMines is the set of the placedMines *)
(* sets the two loops can end with.                                        *)

RECURSIVE kSubsets(_, _)
kSubsets(S, k) ==
    IF k = 0 THEN {{}}
    ELSE IF Cardinality(S) < k THEN {}
    ELSE LET x == CHOOSE e \in S : TRUE
         IN  {T \cup {x} : T \in kSubsets(S \ {x}, k - 1)} \cup kSubsets(S \ {x}, k)

\* Mutant: the safe zone is not excluded, only the start cell is.
isReserved_startOnly(c, reservedCells, startX, startY) ==
    c[1] = startX /\ c[2] = startY

\* reservedCells.has(key) || (x === startX && y === startY)
isReserved(c, reservedCells, startX, startY) ==
    c \in reservedCells \/ (c[1] = startX /\ c[2] = startY)

edgePositions(settings, reservedCells, startX, startY) ==
    {c \in AllCells(settings.width, settings.height) :
        ~isReserved(c, reservedCells, startX, startY)
        /\ isEdge(c, settings.width, settings.height)}

centerPositions(settings, reservedCells, startX, startY) ==
    {c \in AllCells(settings.width, settings.height) :
        ~isReserved(c, reservedCells, startX, startY)
        /\ ~isEdge(c, settings.width, settings.height)}

\* Mutant: a tenth of the mines instead of EDGE_MINE_RATIO.
edgeMineCount_tenth(mines, edgeLength) == Min(floorMul(mines, <<1, 10>>), edgeLength)

\* Math.min(Math.floor(settings.mines * EDGE_MINE_RATIO), edgePositions.length)
edgeMineCount(mines, edgeLength) == Min(floorMul(mines, EDGE_MINE_RATIO), edgeLength)

\* Mutant: the second loop runs while placedMines.size <= settings.mines.
restCount_oneMore(mines, placed, poolLength) == Min(mines + 1 - placed, poolLength)

\* Iterations of "while (placedMines.size < settings.mines && allPositions.length)"
restCount(mines, placed, poolLength) == Min(Max(mines - placed, 0), poolLength)

placeMines(settings, reservedCells, startX, startY) ==
    LET edge == edgePositions(settings, reservedCells, startX, startY)
        center == centerPositions(settings, reservedCells, startX, startY)
        \* for (i < edgeMineCount && edgePositions.length && placedMines.size < mines)
        first == Min(edgeMineCount(settings.mines, Cardinality(edge)), settings.mines)
    IN  UNION {
          {E \cup R : R \in kSubsets((edge \ E) \cup center,
                                     restCount(settings.mines, first,
                                               Cardinality((edge \ E) \cup center)))}
          : E \in kSubsets(edge, first)}

\* A function as a table of its values, computed once (f @@ << >> is f).
table(f) == f @@ << >>

\* getSafeCells, placeMines and the two flood-fill validators, tabulated per
\* (difficulty, start) and per (difficulty, layout).
safeCellsOf ==
    table([d \in DOMAIN boardSettings |->
        table([s \in Coordinates(boardSettings[d].width, boardSettings[d].height) |->
            getSafeCells(s[1], s[2], boardSettings[d].width, boardSettings[d].height,
                         boardSettings[d].width * boardSettings[d].height)])])

placeMinesOf ==
    table([d \in DOMAIN boardSettings |->
        table([s \in Coordinates(boardSettings[d].width, boardSettings[d].height) |->
            placeMines(boardSettings[d], safeCellsOf[d][s], s[1], s[2])])])

validatorsOf ==
    table([d \in DOMAIN boardSettings |->
        table([placedMines \in UNION {placeMinesOf[d][s] : s \in DOMAIN placeMinesOf[d]} |->
            LET grid == gridOf(boardSettings[d].width, boardSettings[d].height, placedMines)
            IN  [emptyCellsConnected |->
                     areEmptyCellsConnected(grid, boardSettings[d].width, boardSettings[d].height),
                 minesHaveEdgePath |->
                     doMinesHaveEdgePath(grid, boardSettings[d].width, boardSettings[d].height)]])])

\* countAdjacentMines(x, y) at every position of the board, over the grid
\* it reads
adjacentMineCounts(grid, width, height) ==
    [c \in AllCells(width, height) |-> countAdjacentMines(grid, c[1], c[2])]

\* Array.from(placedMines).some(mine => countAdjacentMines(x, y) === 8), where
\* countAdjacentMines reads GameGrid: the grid of the previous game (or [[]]),
\* not the candidate under construction.  counts is adjacentMineCounts of the
\* grid that is read.
hasEncasedMine(placedMines, counts) ==
    \E mine \in placedMines : counts[mine] = 8

----------------------------------------------------------------------------
(* The cell store.  A cell's handle reads the cellState of the last render *)
(* (components/board.tsx:155-168) and its setters queue functional updates *)
(* that React applies after the running handler returns: inside one handler*)
(* every isRevealed / isFlagged / getValue answers from the store as it was*)
(* when the handler started, and the handler's updates take effect together*)
(* at its end.  The operators below therefore read a store and return the  *)
(* sequence of cells on which revealCell was called.                       *)

\* `${adjMines}` for the counts 0..8
toString(n) == <<"0", "1", "2", "3", "4", "5", "6", "7", "8">>[n + 1]

\* the NaN of parseInt
NaN == -9

\* parseInt(cellValue) for the values a cell can hold: "", "M", "0".."8"
parseInt(value) ==
    IF \E n \in 0 .. 8 : toString(n) = value
    THEN CHOOSE n \in 0 .. 8 : toString(n) = value
    ELSE NaN

\* useState({ revealed: false, value: "", flagged: false })
freshCell == [revealed |-> FALSE, value |-> "", flagged |-> FALSE]

\* The cells mounted for a difficulty (generateBoardCells, board.utils.ts:193-214)
mountedCells(difficulty) ==
    [c \in AllCells(boardSettings[difficulty].width, boardSettings[difficulty].height)
        |-> freshCell]

\* A clearAllCells without the resetCell call: only setValue("")
clearAllCells_valueOnly(store) == [c \in DOMAIN store |-> [store[c] EXCEPT !.value = ""]]

\* clearAllCells, board.utils.ts:27-34: setValue("") and then resetCell() on
\* every cell; the later updater replaces the whole cell state
clearAllCells(store) ==
    LET setValue(cell, value) == [cell EXCEPT !.value = value]
        resetCell(cell) == freshCell
    IN  [c \in DOMAIN store |-> resetCell(setValue(store[c], ""))]

\* generateBoardCells, board.utils.ts:193-214: the render for a difficulty
\* keeps the cells whose key game-x-y is still on the board and mounts the others
generateBoardCells(store, difficulty) ==
    [c \in AllCells(boardSettings[difficulty].width, boardSettings[difficulty].height)
        |-> IF c \in DOMAIN store THEN store[c] ELSE freshCell]

seqToSet(q) == {q[i] : i \in 1 .. Len(q)}

\* Mutant: only the first four directions are walked.
RECURSIVE pushNeighbours_firstFour(_, _, _, _)
pushNeighbours_firstFour(cur, i, visited, queue) ==
    IF i > 4 THEN queue
    ELSE LET n == step(cur, ALL_DIRECTIONS[i])
         IN  pushNeighbours_firstFour(cur, i + 1, visited,
                                      IF n \notin visited THEN Append(queue, n) ELSE queue)

\* Mutant: every unvisited neighbour is pushed twice.
RECURSIVE pushNeighbours_twice(_, _, _, _)
pushNeighbours_twice(cur, i, visited, queue) ==
    IF i > Len(ALL_DIRECTIONS) THEN queue
    ELSE LET n == step(cur, ALL_DIRECTIONS[i])
         IN  pushNeighbours_twice(cur, i + 1, visited,
                                  IF n \notin visited THEN Append(Append(queue, n), n) ELSE queue)

\* The neighbours pushed for a zero-valued cell: ALL_DIRECTIONS.forEach(...),
\* from index i on, skipping the keys already visited.
RECURSIVE pushNeighbours(_, _, _, _)
pushNeighbours(cur, i, visited, queue) ==
    IF i > Len(ALL_DIRECTIONS) THEN queue
    ELSE LET n == step(cur, ALL_DIRECTIONS[i])
         IN  pushNeighbours(cur, i + 1, visited,
                            IF n \notin visited THEN Append(queue, n) ELSE queue)

\* Mutant: the neighbours are pushed whatever the value of the cell is.
RECURSIVE floodLoop_anyValue(_, _, _, _, _, _, _, _)
floodLoop_anyValue(visited, queue, calls, maxQueue, dequeues, store, width, height) ==
    IF Len(queue) = 0
    THEN [calls |-> calls, visited |-> visited, maxQueue |-> maxQueue, dequeues |-> dequeues]
    ELSE LET cur == Head(queue)
             rest == Tail(queue)
         IN  IF cur \in visited \/ ~inBounds(cur, width, height)
             THEN floodLoop_anyValue(visited, rest, calls, maxQueue, dequeues + 1,
                                     store, width, height)
             ELSE IF cur \notin DOMAIN store \/ store[cur].revealed \/ store[cur].flagged
             THEN floodLoop_anyValue(visited \cup {cur}, rest, calls, maxQueue, dequeues + 1,
                                     store, width, height)
             ELSE LET q2 == pushNeighbours(cur, 1, visited \cup {cur}, rest)
                  IN  floodLoop_anyValue(visited \cup {cur}, q2, Append(calls, cur),
                                         Max(maxQueue, Len(q2)), dequeues + 1,
                                         store, width, height)

\* revealConnectedCells, floodfill.ts:12-43: the while loop.  calls is the
\* sequence of cells revealCell was called on, maxQueue the longest queue
\* seen, dequeues the number of queue.shift() calls.
RECURSIVE floodLoop(_, _, _, _, _, _, _, _)
floodLoop(visited, queue, calls, maxQueue, dequeues, store, width, height) ==
    IF Len(queue) = 0
    THEN [calls |-> calls, visited |-> visited, maxQueue |-> maxQueue, dequeues |-> dequeues]
    ELSE LET cur == Head(queue)
             rest == Tail(queue)
         IN  IF cur \in visited \/ ~inBounds(cur, width, height)
             THEN floodLoop(visited, rest, calls, maxQueue, dequeues + 1, store, width, height)
             ELSE IF cur \notin DOMAIN store \/ store[cur].revealed \/ store[cur].flagged
             THEN floodLoop(visited \cup {cur}, rest, calls, maxQueue, dequeues + 1,
                            store, width, height)
             ELSE LET q2 == IF store[cur].value = "0"
                            THEN pushNeighbours(cur, 1, visited \cup {cur}, rest)
                            ELSE rest
                  IN  floodLoop(visited \cup {cur}, q2, Append(calls, cur),
                                Max(maxQueue, Len(q2)), dequeues + 1, store, width, height)

revealConnectedCells(startX, startY, store, width, height) ==
    floodLoop({}, << <<startX, startY>> >>, << >>, 1, 0, store, width, height)

noEffect == [calls |-> << >>, mineHit |-> FALSE, floods |-> << >>]

\* revealCellAndFloodfill, board.utils.ts:74-84
\* A reveal that does not look at isRevealed()
revealCellAndFloodfill_again(x, y, store, Cols, Rows) ==
    IF <<x, y>> \notin DOMAIN store THEN noEffect
    ELSE IF store[<<x, y>>].value = "M"
         THEN [calls |-> << <<x, y>> >>, mineHit |-> TRUE, floods |-> << >>]
    ELSE IF store[<<x, y>>].value = "0"
         THEN LET f == revealConnectedCells(x, y, [store EXCEPT ![<<x, y>>].revealed = FALSE], Cols, Rows)
              IN  [calls |-> << <<x, y>> >> \o f.calls, mineHit |-> FALSE, floods |-> <<f>>]
    ELSE [calls |-> << <<x, y>> >>, mineHit |-> FALSE, floods |-> << >>]

revealCellAndFloodfill(x, y, store, Cols, Rows) ==
    IF <<x, y>> \notin DOMAIN store \/ store[<<x, y>>].revealed THEN noEffect
    ELSE IF store[<<x, y>>].value = "M"
         THEN [calls |-> << <<x, y>> >>, mineHit |-> TRUE, floods |-> << >>]
    ELSE IF store[<<x, y>>].value = "0"
         THEN LET f == revealConnectedCells(x, y, store, Cols, Rows)
              IN  [calls |-> << <<x, y>> >> \o f.calls, mineHit |-> FALSE, floods |-> <<f>>]
    ELSE [calls |-> << <<x, y>> >>, mineHit |-> FALSE, floods |-> << >>]

\* performChordReveal, board.utils.ts:50-60: the in-bounds, mounted neighbours
neighbourSeq(x, y, store, Cols, Rows) ==
    LET present(d) == inBounds(step(<<x, y>>, d), Cols, Rows) /\ step(<<x, y>>, d) \in DOMAIN store
        ds == SelectSeq(ALL_DIRECTIONS, present)
    IN  [i \in 1 .. Len(ds) |-> step(<<x, y>>, ds[i])]

flagCountAt(x, y, store, Cols, Rows) ==
    LET ns == neighbourSeq(x, y, store, Cols, Rows)
    IN  Cardinality({i \in 1 .. Len(ns) : store[ns[i]].flagged})

\* A loop that goes on to the neighbours after a mine
RECURSIVE chordLoop_pastMine(_, _, _, _, _, _)
chordLoop_pastMine(neighbors, i, acc, store, Cols, Rows) ==
    IF i > Len(neighbors) THEN acc
    ELSE LET n == neighbors[i]
             called == [acc EXCEPT !.calls = Append(@, n)]
         IN  IF store[n].value = "M"
             THEN chordLoop_pastMine(neighbors, i + 1, [called EXCEPT !.mineHit = TRUE],
                                     store, Cols, Rows)
             ELSE chordLoop_pastMine(neighbors, i + 1, called, store, Cols, Rows)

\* board.utils.ts:64-71: the loop over the unflagged, unrevealed neighbours
RECURSIVE chordLoop(_, _, _, _, _, _)
chordLoop(neighbors, i, acc, store, Cols, Rows) ==
    IF i > Len(neighbors) THEN acc
    ELSE LET n == neighbors[i]
             called == [acc EXCEPT !.calls = Append(@, n)]
         IN  IF store[n].value = "M" THEN [called EXCEPT !.mineHit = TRUE]
             ELSE IF store[n].value = "0"
                  THEN LET f == revealConnectedCells(n[1], n[2], store, Cols, Rows)
                       IN  chordLoop(neighbors, i + 1,
                                     [called EXCEPT !.calls = @ \o f.calls,
                                                    !.floods = Append(@, f)],
                                     store, Cols, Rows)
             ELSE chordLoop(neighbors, i + 1, called, store, Cols, Rows)

\* performChordReveal, board.utils.ts:36-72
performChordReveal(x, y, store, Cols, Rows) ==
    IF <<x, y>> \notin DOMAIN store THEN noEffect
    ELSE LET cellNumber == parseInt(store[<<x, y>>].value)
             ns == neighbourSeq(x, y, store, Cols, Rows)
             hidden(c) == ~store[c].flagged /\ ~store[c].revealed
             neighbors == SelectSeq(ns, hidden)
         IN  IF cellNumber = NaN \/ cellNumber = 0 THEN noEffect
             ELSE IF flagCountAt(x, y, store, Cols, Rows) # cellNumber THEN noEffect
             ELSE chordLoop(neighbors, 1, noEffect, store, Cols, Rows)

\* The store after the queued revealCell updates: prev => ({ ...prev, revealed: true })
applyReveals(store, calls) ==
    [c \in DOMAIN store |->
        IF c \in seqToSet(calls) THEN [store[c] EXCEPT !.revealed = TRUE] ELSE store[c]]

\* A handler that ends the game without showing the mines
revealAllMines_none(store) == {}

\* revealAllMines, board.utils.ts:24-25: the cells revealCell is called on
revealAllMines(store) == {c \in DOMAIN store : store[c].value = "M"}

----------------------------------------------------------------------------
(* Initial values of the program state *)

\* let GameGrid = [[]]: one row, no column
GameGridInit == [y \in {0} |-> [x \in {} |-> 0]]

idleCall == [pc |-> "idle"]
noLast == [op |-> "none"]
noArgs == [fn |-> "none", countIterations |-> FALSE]
noRet == [done |-> FALSE]

\* counting: whether the fallback loop's iterations are counted (call.iters).
\* The count is instrumentation, not program state; it multiplies the states of
\* the loop, so only the specification that checks the loop's length keeps it.
GameInit(difficulty, counting) ==
    /\ GameGrid = GameGridInit
    /\ cells = mountedCells(difficulty)
    /\ gameState = [initialized |-> FALSE, ended |-> FALSE, difficulty |-> difficulty]
    /\ timers = << >>
    /\ call = idleCall
    /\ last = noLast
    /\ args = [fn |-> "none", countIterations |-> counting]
    /\ ret = noRet

----------------------------------------------------------------------------
(* GenerateGameState, board.tsx:523-572, run by initializeGameWithReveal   *)
(* (board.utils.ts:112-117) inside the click handler.  It is one           *)
(* synchronous call; call.pc is its position, and no other handler runs    *)
(* until it is back at "idle".                                             *)

\* The longest count of fallback iterations the model tells apart.
iterCap(settings) == settings.width * settings.height + 1

\* board.tsx:527-532: settings, start, reservedCells; generateValidBoard begins
beginGenerate(difficulty, startX, startY) ==
    LET settings == boardSettings[difficulty]
    IN  [pc |-> "attempt", difficulty |-> difficulty, settings |-> settings,
         startX |-> startX, startY |-> startY,
         reservedCells |-> getSafeCells(startX, startY, settings.width, settings.height,
                                        settings.width * settings.height),
         attempts |-> 0, success |-> FALSE, placedMines |-> {}, iters |-> 0]

\* board.tsx:501-514: the candidate passes the encased-mine check, read from
\* counts, and the two flood-fill validators
candidateValid(difficulty, placedMines, counts) ==
    /\ ~hasEncasedMine(placedMines, counts)
    /\ validatorsOf[difficulty][placedMines].emptyCellsConnected
    /\ validatorsOf[difficulty][placedMines].minesHaveEdgePath

\* A loop that goes round once more
attemptsLeft_oneMore(attempts) == attempts <= MAX_GENERATION_ATTEMPTS

\* board.tsx:464: while (attempts < MAX_GENERATION_ATTEMPTS)
attemptsLeft(attempts) == attempts < MAX_GENERATION_ATTEMPTS

\* board.tsx:464-518: one iteration of "while (attempts < MAX_GENERATION_ATTEMPTS)";
\* a valid candidate is returned and becomes GameGrid (board.tsx:513, 555).
\* attempts is a local of generateValidBoard and ends with its return.
Attempt ==
    /\ call.pc = "attempt"
    /\ attemptsLeft(call.attempts)
    /\ LET counts == adjacentMineCounts(GameGrid, call.settings.width, call.settings.height)
       IN
       \E placedMines \in placeMinesOf[call.difficulty][<<call.startX, call.startY>>] :
          IF candidateValid(call.difficulty, placedMines, counts)
          THEN /\ call' = [call EXCEPT !.pc = "numbers", !.attempts = 0,
                                         !.success = TRUE, !.placedMines = placedMines]
               /\ GameGrid' = gridOf(call.settings.width, call.settings.height,
                                     placedMines)
          ELSE /\ call' = [call EXCEPT !.attempts = @ + 1]
               /\ UNCHANGED GameGrid
    /\ UNCHANGED <<cells, gameState, timers, last, args, ret>>

\* board.tsx:520, 534-539: the loop ends without a valid board; the fallback
\* starts from an empty GameGrid
AttemptsExhausted ==
    /\ call.pc = "attempt"
    /\ ~attemptsLeft(call.attempts)
    /\ GameGrid' = gridOf(call.settings.width, call.settings.height, {})
    /\ call' = [call EXCEPT !.pc = IF call.settings.mines > 0 THEN "fallback" ELSE "numbers",
                            !.attempts = 0, !.success = FALSE, !.placedMines = {}]
    /\ UNCHANGED <<cells, gameState, timers, last, args, ret>>

\* board.tsx:541-552: one iteration of "while (placedMines.size < settings.mines)"
FallbackDraw ==
    /\ call.pc = "fallback"
    /\ \E x \in 0 .. call.settings.width - 1 : \E y \in 0 .. call.settings.height - 1 :
          LET accepted == /\ <<x, y>> \notin call.reservedCells
                          /\ ~(x = call.startX /\ y = call.startY)
                          /\ <<x, y>> \notin call.placedMines
              placed == IF accepted THEN call.placedMines \cup {<<x, y>>} ELSE call.placedMines
          IN  /\ GameGrid' = IF accepted THEN [GameGrid EXCEPT ![y][x] = M] ELSE GameGrid
              /\ call' = [call EXCEPT
                            !.placedMines = placed,
                            !.iters = IF args.countIterations
                                      THEN Min(@ + 1, iterCap(call.settings)) ELSE @,
                            !.pc = IF Cardinality(placed) < call.settings.mines
                                   THEN "fallback" ELSE "numbers"]
    /\ UNCHANGED <<cells, gameState, timers, last, args, ret>>

\* board.tsx:557-571 and board.utils.ts:115-116: the number pass over the
\* mounted cells, setGameInitialized(true), and the deferred first reveal is
\* scheduled.
Finish ==
    /\ call.pc = "numbers"
    /\ LET grid0 == GameGrid
           w == call.settings.width
           h == call.settings.height
       IN  /\ GameGrid' =
                 [y \in 0 .. h - 1 |-> [x \in 0 .. w - 1 |->
                     IF <<x, y>> \in DOMAIN cells /\ getValueAt(grid0, x, y) # M
                     THEN countAdjacentMines(grid0, x, y)
                     ELSE grid0[y][x]]]
           /\ cells' =
                 [c \in DOMAIN cells |->
                     IF inBounds(c, w, h)
                     THEN [cells[c] EXCEPT !.value =
                              IF getValueAt(grid0, c[1], c[2]) = M THEN "M"
                              ELSE toString(countAdjacentMines(grid0, c[1], c[2]))]
                     ELSE cells[c]]
    /\ gameState' = [gameState EXCEPT !.initialized = TRUE]
    /\ timers' = Append(timers, [x |-> call.startX, y |-> call.startY,
                                 Cols |-> call.settings.width, Rows |-> call.settings.height])
    /\ last' = [op |-> "generate", difficulty |-> call.difficulty,
                startX |-> call.startX, startY |-> call.startY,
                reservedCells |-> call.reservedCells, success |-> call.success,
                iters |-> call.iters]
    /\ call' = idleCall
    /\ UNCHANGED <<args, ret>>

----------------------------------------------------------------------------
(* The handlers *)

effectOf(op, x, y, eff) ==
    [op |-> op, x |-> x, y |-> y, calls |-> eff.calls, mineHit |-> eff.mineHit,
     floods |-> [i \in 1 .. Len(eff.floods) |->
                    [maxQueue |-> eff.floods[i].maxQueue, dequeues |-> eff.floods[i].dequeues]]]

\* handleCellClick -> handleCellInteraction
\* (components/board.tsx:37-45; board.utils.ts:86-99)
handleCellInteraction(x, y) ==
    /\ call.pc = "idle"
    /\ LET Cols == boardSettings[gameState.difficulty].width
           Rows == boardSettings[gameState.difficulty].height
       IN  IF gameState.ended
           THEN /\ last' = [op |-> "ignored"]
                /\ UNCHANGED <<GameGrid, cells, gameState, timers, call>>
           ELSE IF ~gameState.initialized
           THEN /\ call' = beginGenerate(gameState.difficulty, x, y)
                /\ UNCHANGED <<GameGrid, cells, gameState, timers, last>>
           ELSE IF <<x, y>> \notin DOMAIN cells
           THEN /\ last' = [op |-> "ignored"]
                /\ UNCHANGED <<GameGrid, cells, gameState, timers, call>>
           ELSE LET chord == cells[<<x, y>>].revealed
                    eff == IF chord THEN performChordReveal(x, y, cells, Cols, Rows)
                           ELSE revealCellAndFloodfill(x, y, cells, Cols, Rows)
                    \* onMineHit: setGameState(ended: true); revealAllMines(cellsRefs)
                    shown == IF eff.mineHit THEN seqToSet(eff.calls) \cup revealAllMines(cells)
                             ELSE seqToSet(eff.calls)
                IN  /\ cells' = [c \in DOMAIN cells |->
                                    IF c \in shown THEN [cells[c] EXCEPT !.revealed = TRUE]
                                    ELSE cells[c]]
                    /\ gameState' = IF eff.mineHit THEN [gameState EXCEPT !.ended = TRUE]
                                    ELSE gameState
                    /\ last' = effectOf(IF chord THEN "chord" ELSE "reveal", x, y, eff)
                    /\ UNCHANGED <<GameGrid, timers, call>>
    /\ UNCHANGED <<args, ret>>

\* Cell.handleClick, components/board.tsx:188: a mounted game cell passes the
\* click on unless it is hidden and flagged
Click(x, y) ==
    /\ <<x, y>> \in DOMAIN cells
    /\ ~(~cells[<<x, y>>].revealed /\ cells[<<x, y>>].flagged)
    /\ handleCellInteraction(x, y)

\* The callback of setTimeout(..., 0) in initializeGameWithReveal,
\* board.utils.ts:116; its onMineHit is () => setGameEnded(true)
FirstReveal ==
    /\ call.pc = "idle"
    /\ Len(timers) > 0
    /\ LET t == Head(timers)
           eff == revealCellAndFloodfill(t.x, t.y, cells, t.Cols, t.Rows)
       IN  /\ cells' = applyReveals(cells, eff.calls)
           /\ gameState' = IF eff.mineHit THEN [gameState EXCEPT !.ended = TRUE] ELSE gameState
           /\ last' = effectOf("firstReveal", t.x, t.y, eff)
    /\ timers' = Tail(timers)
    /\ UNCHANGED <<GameGrid, call, args, ret>>

\* createBoardHandle.resetGame, board.utils.ts:169-176; after the re-render
\* the cells of newDifficulty are mounted, each cleared or fresh
ResetGame(newDifficulty) ==
    /\ call.pc = "idle"
    /\ gameState' = [initialized |-> FALSE, ended |-> FALSE, difficulty |-> newDifficulty]
    /\ cells' = generateBoardCells(clearAllCells(cells), newDifficulty)
    /\ last' = noLast
    /\ UNCHANGED <<GameGrid, timers, call, args, ret>>

\* A handleCellFlag that does not look at gameActive
handleCellFlag_anyState(x, y) ==
    /\ call.pc = "idle"
    /\ IF <<x, y>> \in DOMAIN cells /\ ~cells[<<x, y>>].revealed
       THEN /\ cells' = [cells EXCEPT ![<<x, y>>].flagged = ~@]
            /\ last' = [op |-> "flag"]
       ELSE /\ cells' = cells
            /\ last' = [op |-> "ignored"]
    /\ UNCHANGED <<GameGrid, gameState, timers, call, args, ret>>

\* handleCellFlag -> toggleFlag (components/board.tsx:47, 163-167;
\* board.utils.ts:101-110): it returns false without a change when the game
\* is not active, the store has no cell, or the cell is revealed
handleCellFlag(x, y) ==
    /\ call.pc = "idle"
    /\ IF /\ gameState.initialized /\ ~gameState.ended
          /\ <<x, y>> \in DOMAIN cells
          /\ ~cells[<<x, y>>].revealed
       THEN /\ cells' = [cells EXCEPT ![<<x, y>>].flagged = ~@]
            /\ last' = [op |-> "flag"]
       ELSE /\ cells' = cells
            /\ last' = [op |-> "ignored"]
    /\ UNCHANGED <<GameGrid, gameState, timers, call, args, ret>>

\* Cell.handleRightClick, components/board.tsx:190-194: a mounted game cell
\* that is not revealed passes the right click on
Flag(x, y) ==
    /\ <<x, y>> \in DOMAIN cells
    /\ ~cells[<<x, y>>].revealed
    /\ handleCellFlag(x, y)

----------------------------------------------------------------------------
(* Play on the small board: games one after another, clicks, chords, flags *)
(* and resets in any order.                                                *)

\* The most cells that carry a flag at once.
MaxFlags == 2

Init == GameInit("easy", TRUE)

\* A left click on any mounted cell.  The player's next click or flag comes
\* after the deferred first reveal (a timer of 0 ms) has run; a reset, which
\* the parent component calls, may come before it.
ClickCell ==
    \E c \in DOMAIN cells :
        /\ timers = << >>
        /\ Click(c[1], c[2])

FlagCell ==
    \E c \in DOMAIN cells :
        /\ timers = << >>
        /\ cells[c].flagged \/ Cardinality({d \in DOMAIN cells : cells[d].flagged}) < MaxFlags
        /\ Flag(c[1], c[2])

Reset == ResetGame("easy")

Next ==
    \/ ClickCell
    \/ FlagCell
    \/ Attempt
    \/ AttemptsExhausted
    \/ FallbackDraw
    \/ Finish
    \/ FirstReveal
    \/ Reset

Spec == Init /\ [][Next]_vars

----------------------------------------------------------------------------
(* Play with the difficulty selector: the steps of Spec and                *)
(* changeDifficulty, with the one difficulty the model plays on.           *)

\* createBoardHandle.changeDifficulty, board.utils.ts:178-184: nothing in an
\* initialized game; else the difficulty is set and every cell is cleared
changeDifficulty(newDifficulty) ==
    /\ call.pc = "idle"
    /\ IF gameState.initialized
       THEN UNCHANGED <<gameState, cells, last>>
       ELSE /\ gameState' = [gameState EXCEPT !.difficulty = newDifficulty]
            /\ cells' = generateBoardCells(clearAllCells(cells), newDifficulty)
            /\ last' = noLast
    /\ UNCHANGED <<GameGrid, timers, call, args, ret>>

ChangeDifficulty == changeDifficulty("easy")

RaceNext ==
    \/ Next
    \/ ChangeDifficulty

RaceSpec == Init /\ [][RaceNext]_vars

----------------------------------------------------------------------------

(* Generation over a sequence of games on the dense board: a first click,  *)
(* the generation, the first reveal, a reset, and again.                   *)

GenInit == GameInit("medium", FALSE)

\* the click that starts a game
FirstClick == \E c \in DOMAIN cells : ~gameState.initialized /\ Click(c[1], c[2])

GenReset == timers = << >> /\ ResetGame("medium")

GenNext ==
    \/ FirstClick
    \/ Attempt
    \/ AttemptsExhausted
    \/ FallbackDraw
    \/ Finish
    \/ FirstReveal
    \/ GenReset

GenSpec == GenInit /\ [][GenNext]_vars

----------------------------------------------------------------------------
(* One game on the wide board: the safe zone has two cells, and two mines  *)
(* can cut a corner off or lie both in the interior.                       *)

WideInit == GameInit("hard", FALSE)

WideNext ==
    \/ FirstClick
    \/ Attempt
    \/ AttemptsExhausted
    \/ FallbackDraw
    \/ Finish
    \/ FirstReveal

WideSpec == WideInit /\ [][WideNext]_vars

----------------------------------------------------------------------------
(* The two handlers of the board called with any coordinate, on the board  *)
(* or on the ring around it, in every game state of one game on the small  *)
(* board.                                                                  *)

HandlerInit == GameInit("easy", FALSE)

InteractAt ==
    \E c \in Coordinates(boardSettings[gameState.difficulty].width,
                       boardSettings[gameState.difficulty].height) :
        /\ timers = << >>
        /\ handleCellInteraction(c[1], c[2])

FlagAt ==
    \E c \in Coordinates(boardSettings[gameState.difficulty].width,
                       boardSettings[gameState.difficulty].height) :
        /\ timers = << >>
        /\ IF c \in DOMAIN cells /\ ~cells[c].flagged
           THEN Cardinality({d \in DOMAIN cells : cells[d].flagged}) < MaxFlags
           ELSE TRUE
        /\ handleCellFlag(c[1], c[2])

HandlerNext ==
    \/ InteractAt
    \/ FlagAt
    \/ Attempt
    \/ AttemptsExhausted
    \/ FallbackDraw
    \/ Finish
    \/ FirstReveal

HandlerSpec == HandlerInit /\ [][HandlerNext]_vars

----------------------------------------------------------------------------
(* The longest queue of the three searches that push a coordinate only     *)
(* when it is new.  Inside the for loop over the directions the queue only *)
(* grows, so the longest queue is the longest one found at the end of a    *)
(* for loop (or the initial one).                                          *)

\* getSafeCells, floodfill.ts:51-73: queue.length over the while loop
RECURSIVE safeQueue(_, _, _, _, _, _)
safeQueue(safeCells, queue, target, width, height, longest) ==
    IF Len(queue) = 0 \/ Cardinality(safeCells) >= target THEN longest
    ELSE LET r == safeDirections(Head(queue), 1, safeCells, Tail(queue), target, width, height)
         IN  safeQueue(r.safeCells, r.queue, target, width, height, Max(longest, Len(r.queue)))

getSafeCellsQueue(startX, startY, width, height, totalCells) ==
    safeQueue({<<startX, startY>>}, << <<startX, startY>> >>,
              targetSafeCount(totalCells), width, height, 1)

\* areEmptyCellsConnected, floodfill.ts:97-121: queue.length over the while loop
RECURSIVE emptyQueue(_, _, _, _, _, _, _)
emptyQueue(visited, queue, total, grid, width, height, longest) ==
    IF Len(queue) = 0 \/ Cardinality(visited) >= total THEN longest
    ELSE LET r == emptyDirs(Head(queue), 1, visited, Tail(queue), total, grid, width, height)
         IN  IF r.returned THEN Max(longest, Len(r.queue))
             ELSE emptyQueue(r.visited, r.queue, total, grid, width, height,
                             Max(longest, Len(r.queue)))

areEmptyCellsConnectedQueue(grid, width, height) ==
    LET order == rowMajor(width, height)
        empty == {i \in 1 .. width * height : grid[order[i][2]][order[i][1]] # M}
        totalEmptyCells == Cardinality(empty)
    IN  IF totalEmptyCells = 0 THEN 0
        ELSE LET first == order[CHOOSE i \in empty : \A j \in empty : i <= j]
             IN  emptyQueue({first}, <<first>>, totalEmptyCells, grid, width, height, 1)

\* doMinesHaveEdgePath, floodfill.ts:145-166: queue.length over the while loop
RECURSIVE edgeQueue(_, _, _, _, _, _)
edgeQueue(connected, queue, minePositions, width, height, longest) ==
    IF Len(queue) = 0 \/ Cardinality(connected) >= Cardinality(minePositions)
    THEN longest
    ELSE LET r == edgeDirs(Head(queue), 1, connected, Tail(queue), minePositions, width, height)
         IN  edgeQueue(r.connected, r.queue, minePositions, width, height,
                       Max(longest, Len(r.queue)))

doMinesHaveEdgePathQueue(grid, width, height) ==
    LET order == rowMajor(width, height)
        isMine(c) == grid[c[2]][c[1]] = M
        minePositions == SelectSeq(order, isMine)
        onEdge(c) == isEdge(c, width, height)
        edgeMines == SelectSeq(minePositions, onEdge)
        mineSet == {minePositions[i] : i \in 1 .. Len(minePositions)}
        edgeSet == {edgeMines[i] : i \in 1 .. Len(edgeMines)}
    IN  IF Len(minePositions) = 0 THEN 0
        ELSE IF Len(edgeMines) >= minEdgeMines(Len(minePositions)) THEN 0
        ELSE edgeQueue(edgeSet, edgeMines, mineSet, width, height, Len(edgeMines))

----------------------------------------------------------------------------

(* getSafeCells as a pure function: every board up to MaxSafeWidth x       *)
(* MaxSafeHeight and the three shipped boards, every in-bounds start.      *)

MaxSafeWidth == 6
MaxSafeHeight == 6

SafeBoards ==
    ((1 .. MaxSafeWidth) \X (1 .. MaxSafeHeight))
    \cup {<<difficultySettings[d].width, difficultySettings[d].height>> : d \in DOMAIN difficultySettings}

SafeInit ==
    /\ GameGrid = GameGridInit
    /\ cells = << >>
    /\ gameState = [initialized |-> FALSE, ended |-> FALSE, difficulty |-> "easy"]
    /\ timers = << >>
    /\ call = idleCall
    /\ last = noLast
    /\ \E b \in SafeBoards : \E s \in AllCells(b[1], b[2]) :
          args = [fn |-> "getSafeCells", startX |-> s[1], startY |-> s[2],
                  width |-> b[1], height |-> b[2], totalCells |-> b[1] * b[2]]
    /\ ret = noRet

CallGetSafeCells ==
    /\ args.fn = "getSafeCells"
    /\ ~ret.done
    /\ ret' = [done |-> TRUE,
               safeCells |-> getSafeCells(args.startX, args.startY, args.width,
                                          args.height, args.totalCells),
               longest |-> getSafeCellsQueue(args.startX, args.startY, args.width,
                                             args.height, args.totalCells)]
    /\ UNCHANGED <<GameGrid, cells, gameState, timers, call, last, args>>

SafeNext == CallGetSafeCells

SafeSpec == SafeInit /\ [][SafeNext]_vars

----------------------------------------------------------------------------
(* The four searches as pure functions.  The grids of the validators are,  *)
(* on every board up to MaxGridWidth x MaxGridHeight, those with at most   *)
(* MaxGridMines mines anywhere, and on the largest board those with at     *)
(* most one mine on the edge and the interior full of mines but for at     *)
(* most MaxGridHoles cells: there the search of doMinesHaveEdgePath runs.  *)
(* getSafeCells runs from every start of every such board.                 *)
(* revealConnectedCells runs on the boards up to half that size, with at   *)
(* most MaxGridMines mines, the values being the true counts, from every   *)
(* cell that is no mine, with at most one cell revealed and at most one    *)
(* cell flagged beforehand.                                                *)

MaxGridWidth == 6
MaxGridHeight == 6
MaxGridMines == 2
MaxGridHoles == 2

atMost(S, k) == UNION {kSubsets(S, n) : n \in 0 .. Min(k, Cardinality(S))}

denseGrids(width, height) ==
    LET all == AllCells(width, height)
        edge == {c \in all : isEdge(c, width, height)}
        interior == all \ edge
    IN  {[width |-> width, height |-> height, mines |-> e \cup (interior \ holes)] :
            e \in atMost(edge, 1), holes \in atMost(interior, MaxGridHoles)}

\* the store of a generated board: "M" or the count of the mines around
valuesOf(width, height, mines) ==
    LET grid == gridOf(width, height, mines)
    IN  [c \in AllCells(width, height) |->
            IF c \in mines THEN "M" ELSE toString(countAdjacentMines(grid, c[1], c[2]))]

storeOf(values, revealed, flagged) ==
    [c \in DOMAIN values |->
        [value |-> values[c], revealed |-> c \in revealed, flagged |-> c \in flagged]]

GridInit ==
    /\ GameGrid = GameGridInit
    /\ cells = << >>
    /\ gameState = [initialized |-> FALSE, ended |-> FALSE, difficulty |-> "easy"]
    /\ timers = << >>
    /\ call = idleCall
    /\ last = noLast
    /\ \/ \E b \in (1 .. MaxGridWidth) \X (1 .. MaxGridHeight) :
          \E m \in atMost(AllCells(b[1], b[2]), MaxGridMines) :
          \E fn \in {"areEmptyCellsConnected", "doMinesHaveEdgePath"} :
             args = [fn |-> fn, grid |-> gridOf(b[1], b[2], m),
                     width |-> b[1], height |-> b[2]]
       \/ \E g \in denseGrids(MaxGridWidth, MaxGridHeight) :
          \E fn \in {"areEmptyCellsConnected", "doMinesHaveEdgePath"} :
             args = [fn |-> fn, grid |-> gridOf(g.width, g.height, g.mines),
                     width |-> g.width, height |-> g.height]
       \/ \E b \in (1 .. MaxGridWidth) \X (1 .. MaxGridHeight) :
          \E start \in AllCells(b[1], b[2]) :
             args = [fn |-> "getSafeCells", startX |-> start[1], startY |-> start[2],
                     width |-> b[1], height |-> b[2], totalCells |-> b[1] * b[2]]
       \/ \E b \in (1 .. MaxGridWidth \div 2) \X (1 .. MaxGridHeight \div 2) :
          \E m \in atMost(AllCells(b[1], b[2]), MaxGridMines) :
          \E values \in {table(valuesOf(b[1], b[2], m))} :
          \E start \in AllCells(b[1], b[2]) \ m :
          \E revealed \in atMost(AllCells(b[1], b[2]), 1) :
          \E flagged \in atMost(AllCells(b[1], b[2]), 1) :
             args = [fn |-> "revealConnectedCells", startX |-> start[1],
                     startY |-> start[2], store |-> storeOf(values, revealed, flagged),
                     width |-> b[1], height |-> b[2]]
    /\ ret = noRet

CallAreEmptyCellsConnected ==
    /\ args.fn = "areEmptyCellsConnected"
    /\ ~ret.done
    /\ ret' = [done |-> TRUE,
               result |-> areEmptyCellsConnected(args.grid, args.width, args.height),
               longest |-> areEmptyCellsConnectedQueue(args.grid, args.width, args.height)]
    /\ UNCHANGED <<GameGrid, cells, gameState, timers, call, last, args>>

CallDoMinesHaveEdgePath ==
    /\ args.fn = "doMinesHaveEdgePath"
    /\ ~ret.done
    /\ ret' = [done |-> TRUE,
               result |-> doMinesHaveEdgePath(args.grid, args.width, args.height),
               longest |-> doMinesHaveEdgePathQueue(args.grid, args.width, args.height)]
    /\ UNCHANGED <<GameGrid, cells, gameState, timers, call, last, args>>

CallRevealConnectedCells ==
    /\ args.fn = "revealConnectedCells"
    /\ ~ret.done
    /\ \E f \in {revealConnectedCells(args.startX, args.startY, args.store,
                                         args.width, args.height)} :
          ret' = [done |-> TRUE, calls |-> f.calls, longest |-> f.maxQueue,
                  dequeues |-> f.dequeues]
    /\ UNCHANGED <<GameGrid, cells, gameState, timers, call, last, args>>

GridNext ==
    \/ CallAreEmptyCellsConnected
    \/ CallDoMinesHaveEdgePath
    \/ CallGetSafeCells
    \/ CallRevealConnectedCells

GridSpec == GridInit /\ [][GridNext]_vars

\* The cells of S that a 4-directional walk inside S reaches from the cells of R.
RECURSIVE reach4(_, _)
reach4(R, S) ==
    LET more == {c \in S \ R : \E r \in R : \E i \in 1 .. Len(CARDINAL_DIRECTIONS) :
                                   c = step(r, CARDINAL_DIRECTIONS[i])}
    IN  IF more = {} THEN R ELSE reach4(R \cup more, S)

\* C6 (as claimed): on every board and for every in-bounds start, the set
\* getSafeCells returns has exactly min(floor(0.08 * width * height), 20) elements.
C6_Claimed ==
    ret.done =>
        Cardinality(ret.safeCells)
            = Min((8 * args.width * args.height) \div 100, 20)

\* C6 (amended): the set has exactly max(1, min(floor(0.08 * width * height), 20))
\* elements (the start cell is always a member, also on boards of fewer than
\* 13 cells, where the target is 0); on a 16x16 board with start (8,8) it has 20.
C6_SafeZoneSize ==
    ret.done =>
        /\ Cardinality(ret.safeCells)
              = Max(1, Min((8 * args.width * args.height) \div 100, 20))
        /\ (args.width = 16 /\ args.height = 16 /\ args.startX = 8 /\ args.startY = 8)
              => Cardinality(ret.safeCells) = 20

C6_Witness ==
    /\ ret.done
    /\ args.width = 16 /\ args.height = 16 /\ args.startX = 8 /\ args.startY = 8
    /\ Cardinality(ret.safeCells) = 20

\* C7: the set getSafeCells returns contains the start coordinate, contains only
\* in-bounds coordinates, and is connected under 4-directional adjacency.
C7_SafeZoneShape ==
    ret.done =>
        /\ <<args.startX, args.startY>> \in ret.safeCells
        /\ ret.safeCells \subseteq AllCells(args.width, args.height)
        /\ reach4({<<args.startX, args.startY>>}, ret.safeCells) = ret.safeCells

\* a safe zone of several cells grown from a corner start
C7_Witness ==
    /\ ret.done
    /\ args.startX = 0 /\ args.startY = 0
    /\ Cardinality(ret.safeCells) >= 2

----------------------------------------------------------------------------
(* The generated board *)

\* GenerateGameState has just returned
generated == last.op = "generate"
validated == generated /\ last.success

boardWidth == boardSettings[gameState.difficulty].width
boardHeight == boardSettings[gameState.difficulty].height
boardMines == minesOf(GameGrid, boardWidth, boardHeight)
boardEmpties == emptiesOf(GameGrid, boardWidth, boardHeight)

\* C1: in every game of a sequence of games, whatever the start cell and
\* whether the board was validated or came from the fallback, exactly
\* settings.mines cells of the final grid hold "M" (and so do exactly as many
\* cell values).
C1_MineCount ==
    gameState.initialized =>
        /\ Cardinality(boardMines) = boardSettings[gameState.difficulty].mines
        /\ {c \in DOMAIN cells : cells[c].value = "M"} = boardMines

\* a fallback board, after the 50 attempts all failed
C1_Witness ==
    /\ generated /\ ~last.success
    /\ Cardinality(boardMines) = boardSettings[gameState.difficulty].mines

\* C3 (as claimed): in any game of a sequence of games, no mine of a board
\* returned with success = true has 8 mine-neighbours.
C3_NoEncasedMine ==
    validated =>
        \A mine \in boardMines : countAdjacentMines(GameGrid, mine[1], mine[2]) < 8

\* a validated board of a first game in which the mine at (1,1) has 8
\* mine-neighbours
C3_Witness ==
    /\ validated
    /\ \A c \in (0 .. 2) \X (0 .. 2) : c \in boardMines

\* The safe zone of the game just generated, computed again from its start.
safeZone ==
    getSafeCells(last.startX, last.startY, boardWidth, boardHeight, boardWidth * boardHeight)
    \cup {<<last.startX, last.startY>>}

\* C2: on a validated board and on a fallback board alike, no cell of the safe
\* zone that getSafeCells returns for the start, and not the start itself,
\* holds a mine.
C2_SafeZoneFree ==
    generated =>
        /\ last.reservedCells \subseteq safeZone
        /\ \A c \in safeZone : GameGrid[c[2]][c[1]] # M /\ cells[c].value # "M"

\* a fallback board with a safe zone of two cells and a mine next to it
C2_Witness ==
    /\ generated /\ ~last.success
    /\ Cardinality(safeZone) = 2
    /\ \E c \in safeZone : \E i \in 1 .. Len(CARDINAL_DIRECTIONS) :
          step(c, CARDINAL_DIRECTIONS[i]) \in boardMines

\* C4: the non-mine cells of a validated board form a single 4-directionally
\* connected component: a 4-directional walk over non-mine cells that starts
\* at one of them reaches them all.
C4_EmptyCellsConnected ==
    validated =>
        \/ boardEmpties = {}
        \/ \E e \in boardEmpties : reach4({e}, boardEmpties) = boardEmpties

\* a validated board with a mine next to a corner, which a second mine on the
\* corner's other side would cut off
C4_Witness ==
    /\ validated
    /\ <<1, 0>> \in boardMines /\ <<0, 1>> \notin boardMines /\ <<0, 0>> \notin boardMines

\* The cells of S that an 8-directional walk inside S reaches from the cells of R.
RECURSIVE reach8(_, _)
reach8(R, S) ==
    LET more == {c \in S \ R : \E r \in R : \E i \in 1 .. Len(ALL_DIRECTIONS) :
                                   c = step(r, ALL_DIRECTIONS[i])}
    IN  IF more = {} THEN R ELSE reach8(R \cup more, S)

boardEdgeMines == {c \in boardMines : isEdge(c, boardWidth, boardHeight)}

----------------------------------------------------------------------------
(* Termination of GenerateGameState *)

\* C8 (as claimed): the retry loop runs at most 50 attempts, and the fallback
\* placement loop ends within a bound that the board fixes: width * height
\* iterations, whatever the random draws.
C8_StaticBound ==
    /\ call.pc = "attempt" => call.attempts <= MAX_GENERATION_ATTEMPTS
    /\ call.pc \in {"fallback", "numbers"} =>
          call.iters <= call.settings.width * call.settings.height

----------------------------------------------------------------------------
(* The reveal engine *)

\* the handler that ran last was a reveal that started on a hidden zero cell
floodStarted == last.op \in {"reveal", "firstReveal"} /\ Len(last.floods) > 0

\* the mounted 8-neighbours of c
neighboursOf(c) ==
    {step(c, ALL_DIRECTIONS[i]) : i \in 1 .. Len(ALL_DIRECTIONS)} \cap DOMAIN cells

\* the number of revealCell calls on c in a sequence of calls
callsOn(calls, c) == Cardinality({i \in 1 .. Len(calls) : calls[i] = c})

\* the zero-valued cells the handler that ran last called revealCell on
revealedZeros == {z \in seqToSet(last.calls) : cells[z].value = "0"}

C10_Chord ==
    last.op = "chord" =>
        /\ flagCountAt(last.x, last.y, cells, boardWidth, boardHeight)
               # parseInt(cells[<<last.x, last.y>>].value)
             => last.calls = << >> /\ ~last.mineHit /\ ~gameState.ended
        /\ \A n \in neighboursOf(<<last.x, last.y>>) : ~(cells[n].flagged /\ cells[n].revealed)


(***************************************************************************)
(* C11: after any sequence of clicks, flags, chords and resets, no cell of *)
(* the store is both flagged and revealed.                                 *)
(***************************************************************************)
C11_FlagRevealExclusive ==
    \A c \in DOMAIN cells : ~(cells[c].flagged /\ cells[c].revealed)

(***************************************************************************)
(* C12: when a click reveal or a chord calls revealCell on a mine, the     *)
(* game is Ended, every cell whose value is "M" is revealed, and the mine  *)
(* is the last cell the operation itself revealed: no flood starts from    *)
(* it.  The mines stay revealed for as long as the game is Ended.          *)
(***************************************************************************)
revealedMine ==
    /\ last.op \in {"reveal", "chord"}
    /\ \E i \in 1 .. Len(last.calls) : cells[last.calls[i]].value = "M"

digits == {"0", "1", "2", "3", "4", "5", "6", "7", "8"}

C13_FirstClick ==
    /\ generated
          => /\ GameGrid[last.startY][last.startX] # M
             /\ cells[<<last.startX, last.startY>>].value \in digits
             /\ gameState.initialized /\ ~gameState.ended
             /\ Len(timers) = 1
             /\ Head(timers).x = last.startX /\ Head(timers).y = last.startY
    /\ last.op = "firstReveal"
          => /\ gameState.initialized /\ ~gameState.ended /\ ~last.mineHit
             /\ cells[<<last.x, last.y>>].value \in digits
             /\ cells[<<last.x, last.y>>].revealed
             /\ last.calls # << >> /\ last.calls[1] = <<last.x, last.y>>
             /\ cells[<<last.x, last.y>>].value = "0"
                   => \A n \in neighboursOf(<<last.x, last.y>>) :
                         ~cells[n].flagged => cells[n].revealed

\* the deferred reveal of a first click has run
C13_Witness == last.op = "firstReveal" /\ gameState.initialized /\ Len(last.calls) > 1

(***************************************************************************)
(* C14: when GenerateGameState has finished, every cell of the store holds *)
(* "M" if its grid cell is a mine, and otherwise the decimal string of the *)
(* number of mines among its in-bounds 8-neighbours, which is the number   *)
(* the grid holds for it and lies in 0..8.                                 *)
(***************************************************************************)
decimal == [n \in 0 .. 8 |-> <<"0", "1", "2", "3", "4", "5", "6", "7", "8">>[n + 1]]

mineNeighbours(c) == {n \in neighboursOf(c) : GameGrid[n[2]][n[1]] = M}

C14_CellValues ==
    generated =>
        \A c \in DOMAIN cells :
            IF GameGrid[c[2]][c[1]] = M
            THEN cells[c].value = "M"
            ELSE /\ Cardinality(mineNeighbours(c)) \in 0 .. 8
                 /\ GameGrid[c[2]][c[1]] = Cardinality(mineNeighbours(c))
                 /\ cells[c].value = decimal[Cardinality(mineNeighbours(c))]

\* a generated board with a cell that has eight mines around it, a corner
\* cell that has three, and a mine
C14_Witness ==
    /\ generated
    /\ \E c \in DOMAIN cells : cells[c].value = "8"
    /\ \E c \in DOMAIN cells : cells[c].value = "3" /\ Cardinality(neighboursOf(c)) = 3
    /\ \E c \in DOMAIN cells : cells[c].value = "M"

(***************************************************************************)
(* C15: a reveal of a coordinate whose cell is already revealed calls      *)
(* revealCell on nothing and reports no mine, whatever the cell holds, and *)
(* the deferred reveal that finds its cell already revealed leaves the     *)
(* cells, the game state and the grid as they were.                        *)
(***************************************************************************)
C15_RevealIdempotent ==
    [][ /\ \A c \in DOMAIN cells :
              cells[c].revealed
                 => revealCellAndFloodfill(c[1], c[2], cells, boardWidth, boardHeight) = noEffect
        /\ ( /\ call.pc = "idle" /\ timers # << >> /\ timers' = Tail(timers)
             /\ <<Head(timers).x, Head(timers).y>> \in DOMAIN cells
             /\ cells[<<Head(timers).x, Head(timers).y>>].revealed )
              => /\ cells' = cells
                 /\ gameState' = gameState
                 /\ GameGrid' = GameGrid ]_vars

\* the deferred reveal of an Active game has found its cell, a zero, already
\* revealed, with hidden neighbours around it
C15_Witness ==
    /\ last.op = "firstReveal" /\ last.calls = << >>
    /\ gameState.initialized
    /\ cells[<<last.x, last.y>>].revealed /\ cells[<<last.x, last.y>>].value = "0"
    /\ \E n \in neighboursOf(<<last.x, last.y>>) : ~cells[n].revealed

(***************************************************************************)
(* C16: the step of resetGame (the only step between two idle states that  *)
(* leaves no operation record) ends with every cell of the store hidden,   *)
(* unflagged and without value and with the game NotInitialized, and it    *)
(* leaves the grid and the pending timers alone; the grid changes only     *)
(* inside a generation, which only a click starts.                         *)
(***************************************************************************)
C16_ResetGame ==
    [][ /\ (call.pc = "idle" /\ call'.pc = "idle" /\ last'.op = "none")
              => /\ \A c \in DOMAIN cells' : cells'[c] = freshCell
                 /\ ~gameState'.initialized /\ ~gameState'.ended
                 /\ GameGrid' = GameGrid
                 /\ timers' = timers
        /\ GameGrid' # GameGrid => call.pc # "idle"
        /\ (call.pc = "idle" /\ call'.pc # "idle")
              => ~gameState.initialized /\ cells' = cells /\ GameGrid' = GameGrid ]_vars

\* resetGame has run after a game whose first reveal was over: the cells are
\* cleared and the grid still holds the mines of that game
C16_Witness ==
    /\ last.op = "none" /\ call.pc = "idle"
    /\ ~gameState.initialized
    /\ \A c \in DOMAIN cells : cells[c] = freshCell
    /\ GameGrid # GameGridInit /\ boardMines # {}
    /\ timers = << >>

(***************************************************************************)
(* C17: a call of handleCellInteraction or handleCellFlag with a           *)
(* coordinate that has no cell in the store changes no cell, no game state *)
(* and no grid and starts nothing, in every game state; and revealCell is  *)
(* only ever called on cells of the store.                                 *)
(***************************************************************************)
outside ==
    Coordinates(boardSettings[gameState.difficulty].width,
                boardSettings[gameState.difficulty].height) \ DOMAIN cells

C17_OutOfBounds ==
    [][ /\ \A c \in outside :
              (handleCellInteraction(c[1], c[2]) \/ handleCellFlag(c[1], c[2]))
                 => UNCHANGED <<GameGrid, cells, gameState, timers, call>>
        /\ last'.op \in {"reveal", "chord", "firstReveal"}
              => \A i \in 1 .. Len(last'.calls) : last'.calls[i] \in DOMAIN cells ]_vars

(***************************************************************************)
(* C18: generateValidBoard has made at most 50 attempts at any time; a     *)
(* candidate that fails sends it round again only while fewer than 50 have *)
(* been made; a candidate that passes the validation becomes the grid at   *)
(* once and the next step of the call is the number pass; and the fallback *)
(* is entered exactly when 50 candidates have failed.                      *)
(***************************************************************************)
C18_AttemptCap ==
    [][ /\ call.pc = "attempt" => call.attempts \in 0 .. MAX_GENERATION_ATTEMPTS
        /\ (call.pc = "attempt" /\ call'.pc = "attempt")
              => /\ call.attempts < MAX_GENERATION_ATTEMPTS
                 /\ call'.attempts = call.attempts + 1
                 /\ GameGrid' = GameGrid
        /\ (call.pc = "attempt" /\ call'.pc = "numbers")
              => /\ call.attempts < MAX_GENERATION_ATTEMPTS
                 /\ call'.success
                 /\ GameGrid' = gridOf(call.settings.width, call.settings.height,
                                       call'.placedMines)
                 /\ ~hasEncasedMine(call'.placedMines,
                                    adjacentMineCounts(GameGrid, call.settings.width,
                                                       call.settings.height))
                 /\ validatorsOf[call.difficulty][call'.placedMines].emptyCellsConnected
                 /\ validatorsOf[call.difficulty][call'.placedMines].minesHaveEdgePath
        /\ (call.pc = "numbers" /\ call'.pc # "numbers") => call'.pc = "idle"
        /\ (call.pc = "attempt" /\ call'.pc = "fallback")
              => call.attempts = MAX_GENERATION_ATTEMPTS /\ ~call'.success
        /\ (call.pc = "attempt" /\ call.attempts = MAX_GENERATION_ATTEMPTS)
              => call'.pc = "fallback"
        /\ (last'.op = "generate" /\ call.pc = "numbers")
              => (last'.success <=> call.success) ]_vars

\* fifty candidates have failed and the fallback board is finished
C18_Witness == generated /\ ~last.success /\ Cardinality(boardMines) = boardSettings[last.difficulty].mines

(***************************************************************************)
(* C19: the game is NotInitialized, Active or Ended; it becomes Active     *)
(* only from NotInitialized, at the end of the generation a click started; *)
(* it becomes Ended only from Active, by a click reveal or a chord that    *)
(* revealed a mine; it becomes NotInitialized again only by resetGame; and *)
(* a click or a right click on an Ended game changes no cell.              *)
(***************************************************************************)
phase(state) ==
    IF ~state.initialized /\ ~state.ended THEN "NotInitialized"
    ELSE IF state.initialized /\ ~state.ended THEN "Active"
    ELSE IF state.initialized /\ state.ended THEN "Ended"
    ELSE "EndedNotInitialized"

C19_GameStates ==
    [][ /\ phase(gameState) \in {"NotInitialized", "Active", "Ended"}
        /\ (phase(gameState') = "Active" /\ phase(gameState) # "Active")
              => /\ phase(gameState) = "NotInitialized"
                 /\ call.pc = "numbers" /\ last'.op = "generate"
        /\ (phase(gameState') = "Ended" /\ phase(gameState) # "Ended")
              => /\ phase(gameState) = "Active"
                 /\ last'.op \in {"reveal", "chord"} /\ last'.mineHit
                 /\ cells'[last'.calls[Len(last'.calls)]].value = "M"
                 /\ cells'[last'.calls[Len(last'.calls)]].revealed
        /\ (phase(gameState') = "NotInitialized" /\ phase(gameState) # "NotInitialized")
              => /\ last'.op = "none" /\ call.pc = "idle"
                 /\ \A c \in DOMAIN cells' : cells'[c] = freshCell
        /\ (phase(gameState) = "Ended" /\ last'.op = "ignored")
              => /\ cells' = cells
                 /\ gameState' = gameState
        /\ (phase(gameState) = "Ended" /\ phase(gameState') = "Ended")
              => /\ cells' = cells
                 /\ last'.op = "ignored" ]_vars

\* a lost game with a hidden flagged cell and a hidden unflagged cell, on
\* which a click or a right click has just been ignored
C19_Witness ==
    /\ phase(gameState) = "Ended" /\ last.op = "ignored"
    /\ \E c \in DOMAIN cells : ~cells[c].revealed /\ cells[c].flagged
    /\ \E c \in DOMAIN cells : ~cells[c].revealed /\ ~cells[c].flagged

(***************************************************************************)
(* C20.  chordStep: the step is a chord on the revealed numbered cell      *)
(* (last'.x, last'.y) whose number equals the number of flags around it.   *)
(* chordNeighbours is the sequence, in the order of the eight directions,  *)
(* of its neighbours that carried no flag and were hidden before the step. *)
(***************************************************************************)
chordStep ==
    /\ call.pc = "idle" /\ call'.pc = "idle"
    /\ gameState.initialized /\ ~gameState.ended
    /\ last'.op = "chord"
    /\ cells[<<last'.x, last'.y>>].revealed
    /\ cells[<<last'.x, last'.y>>].value \in digits \ {"0"}
    /\ decimal[Cardinality({n \in neighboursOf(<<last'.x, last'.y>>) : cells[n].flagged})]
          = cells[<<last'.x, last'.y>>].value

chordNeighbours ==
    LET ns == neighbourSeq(last'.x, last'.y, cells, boardWidth, boardHeight)
        hidden(n) == ~cells[n].flagged /\ ~cells[n].revealed
    IN  SelectSeq(ns, hidden)

----------------------------------------------------------------------------
(* Queue lengths of the four searches *)

\* a search of the harness has returned
searched(fn) == args.fn = fn /\ ret.done

dedupedSearches == {"getSafeCells", "areEmptyCellsConnected", "doMinesHaveEdgePath"}

\* C21 as stated: in each of the four searches, on every board, the queue
\* never holds more than width*height entries.
C21_Claimed ==
    args.fn \in dedupedSearches \cup {"revealConnectedCells"} /\ ret.done
        => ret.longest <= args.width * args.height

\* C21: the three searches that test membership before they push
\* (getSafeCells, areEmptyCellsConnected, doMinesHaveEdgePath) never hold more
\* than width*height entries in their queue; revealConnectedCells, which pushes
\* every neighbour not yet visited, duplicates and coordinates outside the
\* board included, never holds more than 8*width*height entries.
C21_QueueBound ==
    /\ args.fn \in dedupedSearches /\ ret.done
        => ret.longest <= args.width * args.height
    /\ searched("revealConnectedCells")
        => ret.longest <= 8 * args.width * args.height

\* a flood whose queue grew past the number of cells of the board
C21_Witness ==
    /\ searched("revealConnectedCells")
    /\ ret.longest > args.width * args.height
    /\ Len(ret.calls) = args.width * args.height

----------------------------------------------------------------------------
(* The satisfied signal of the cells: components/board.tsx:88-186.          *)
(* In this specification a cell record carries the second useState of the   *)
(* Cell component, satisfied, next to the fields of cellState, and timers   *)
(* holds the setTimeout(() => { checkSatisfaction();                        *)
(* triggerAdjacentUpdates(); }, 0) callbacks not yet run, each with the     *)
(* cellState.revealed and gameInitialized of the render that queued it.     *)
(* State updates are committed when the calling handler returns, before a   *)
(* 0 ms timer runs, and the checkSatisfaction listener of a cell is         *)
(* re-registered whenever a value it reads has changed.                     *)

MaxCellReveals == 2
MaxPending == 2

\* getCellType, board.utils.ts:143-149
getCellType(isFiller, flagged, revealed, value) ==
    IF isFiller THEN "filler"
    ELSE IF flagged THEN "flagged"
    ELSE IF ~revealed THEN ""
    ELSE IF value = "M" THEN "bomb"
    ELSE IF value = "0" THEN "empty"
    ELSE "content"

\* const cellType = satisfied ? "satisfied" : boardUtils.getCellType(...)
cellType(cell) ==
    IF cell.satisfied THEN "satisfied"
    ELSE getCellType(FALSE, cell.flagged, cell.revealed, cell.value)

\* checkSatisfaction: the handles built from the class list and the
\* data-value attribute of every button of the board
tempCellsRefs(store) ==
    [c \in DOMAIN store |->
        [value |-> store[c].value,
         revealed |-> cellType(store[c]) \in {"content", "empty", "satisfied"},
         flagged |-> cellType(store[c]) = "flagged"]]

\* isCellSatisfied, board.utils.ts:119-141
isCellSatisfied(x, y, cellsRefs, Cols, Rows) ==
    IF <<x, y>> \notin DOMAIN cellsRefs \/ ~cellsRefs[<<x, y>>].revealed THEN FALSE
    ELSE LET cellNumber == parseInt(cellsRefs[<<x, y>>].value)
             flagCount == Cardinality({i \in 1 .. Len(ALL_DIRECTIONS) :
                              LET n == step(<<x, y>>, ALL_DIRECTIONS[i])
                              IN  /\ inBounds(n, Cols, Rows)
                                  /\ n \in DOMAIN cellsRefs
                                  /\ cellsRefs[n].flagged})
         IN  IF cellNumber = NaN \/ cellNumber = 0 THEN FALSE
             ELSE flagCount = cellNumber

\* checkSatisfaction of the cell c, run by a closure that holds gameInitialized
\* and revealed, on the document rendered from dom: the value setSatisfied gets
checkSatisfaction(c, gameInitialized, revealed, dom, Cols, Rows) ==
    IF ~gameInitialized \/ ~revealed THEN FALSE
    ELSE isCellSatisfied(c[1], c[2], tempCellsRefs(dom), Cols, Rows)

\* Mutant: the event is dispatched to the cell itself only.
triggerAdjacentUpdates_selfOnly(c, store, dom, gameInitialized, Cols, Rows) ==
    [store EXCEPT ![c].satisfied =
        checkSatisfaction(c, gameInitialized, store[c].revealed, dom, Cols, Rows)]

\* triggerAdjacentUpdates: the checkSatisfaction event reaches the in-bounds
\* cells around c and c itself; every listener reads the same document.
triggerAdjacentUpdates(c, store, dom, gameInitialized, Cols, Rows) ==
    LET targets == {n \in DOMAIN store :
                      /\ inBounds(n, Cols, Rows)
                      /\ \/ n = c
                         \/ \E i \in 1 .. Len(ALL_DIRECTIONS) : n = step(c, ALL_DIRECTIONS[i])}
    IN  [n \in DOMAIN store |->
            IF n \in targets
            THEN [store[n] EXCEPT !.satisfied =
                     checkSatisfaction(n, gameInitialized, store[n].revealed, dom, Cols, Rows)]
            ELSE store[n]]

\* useEffect CheckSatisfaction of the cells in changed, after the commit
commitEffects(store, changed, gameInitialized, Cols, Rows) ==
    [c \in DOMAIN store |->
        IF c \in changed /\ gameInitialized /\ store[c].revealed
        THEN [store[c] EXCEPT !.satisfied =
                 checkSatisfaction(c, gameInitialized, TRUE, store, Cols, Rows)]
        ELSE store[c]]

satisfactionTimer(c, store, gameInitialized) ==
    [x |-> c[1], y |-> c[2], revealed |-> store[c].revealed,
     gameInitialized |-> gameInitialized]

cellCols == boardSettings["easy"].width
cellRows == boardSettings["easy"].height

\* the cells right after GenerateGameState has written a value into each
CellInit ==
    /\ GameGrid = GameGridInit
    /\ \E m \in kSubsets(AllCells(cellCols, cellRows), boardSettings["easy"].mines) :
          \E values \in {table(valuesOf(cellCols, cellRows, m))} :
             cells = [c \in DOMAIN values |->
                         [value |-> values[c], revealed |-> FALSE, flagged |-> FALSE,
                          satisfied |-> FALSE]]
    /\ gameState = [initialized |-> TRUE, ended |-> FALSE, difficulty |-> "easy"]
    /\ timers = << >>
    /\ call = idleCall
    /\ last = noLast
    /\ args = noArgs
    /\ ret = noRet

\* revealCell of the handle, as the reveal engine calls it: on a hidden
\* unflagged cell, or on a mine when the game ends
RevealCell(c) ==
    /\ Len(timers) < MaxPending
    /\ ~cells[c].revealed
    /\ ~cells[c].flagged \/ cells[c].value = "M"
    /\ Cardinality({d \in DOMAIN cells : cells[d].revealed}) < MaxCellReveals
    /\ cells' = commitEffects([cells EXCEPT ![c].revealed = TRUE], {c},
                              gameState.initialized, cellCols, cellRows)
    /\ timers' = Append(timers, satisfactionTimer(c, cells, gameState.initialized))
    /\ UNCHANGED <<GameGrid, gameState, call, last, args, ret>>

\* toggleFlag of the handle, as handleCellFlag calls it
ToggleFlag(c) ==
    /\ Len(timers) < MaxPending
    /\ gameState.initialized /\ ~gameState.ended
    /\ ~cells[c].revealed
    /\ cells[c].flagged \/ Cardinality({d \in DOMAIN cells : cells[d].flagged}) < MaxFlags
    /\ cells' = commitEffects([cells EXCEPT ![c].flagged = ~cells[c].flagged], {c},
                              gameState.initialized, cellCols, cellRows)
    /\ timers' = Append(timers, satisfactionTimer(c, cells, gameState.initialized))
    /\ UNCHANGED <<GameGrid, gameState, call, last, args, ret>>

\* resetCell of every handle, as resetGame calls it; no timer is cancelled
ResetCells ==
    /\ Len(timers) < MaxPending
    /\ gameState.initialized
    /\ cells' = [c \in DOMAIN cells |->
                    [value |-> "", revealed |-> FALSE, flagged |-> FALSE, satisfied |-> FALSE]]
    /\ gameState' = [gameState EXCEPT !.initialized = FALSE, !.ended = FALSE]
    /\ UNCHANGED <<GameGrid, timers, call, last, args, ret>>

RECURSIVE timersOf(_, _, _)
timersOf(order, store, gameInitialized) ==
    IF order = << >> THEN << >>
    ELSE <<satisfactionTimer(Head(order), store, gameInitialized)>>
             \o timersOf(Tail(order), store, gameInitialized)

\* setValue of every handle, as GenerateGameState calls it on the first click
SetValues ==
    /\ Len(timers) < MaxPending
    /\ ~gameState.initialized
    /\ \E m \in kSubsets(AllCells(cellCols, cellRows), boardSettings["easy"].mines) :
          \E values \in {table(valuesOf(cellCols, cellRows, m))} :
             cells' = commitEffects([c \in DOMAIN cells |-> [cells[c] EXCEPT !.value = values[c]]],
                                    DOMAIN cells, TRUE, cellCols, cellRows)
    /\ gameState' = [gameState EXCEPT !.initialized = TRUE]
    /\ timers' = timers \o timersOf(rowMajor(cellCols, cellRows), cells, FALSE)
    /\ UNCHANGED <<GameGrid, call, last, args, ret>>

\* the oldest setTimeout callback: checkSatisfaction of the closure, then
\* triggerAdjacentUpdates
SatisfactionTimer ==
    /\ timers # << >>
    /\ LET t == Head(timers)
           c == <<t.x, t.y>>
           own == [cells EXCEPT ![c].satisfied =
                      checkSatisfaction(c, t.gameInitialized, t.revealed, cells,
                                        cellCols, cellRows)]
       IN  cells' = triggerAdjacentUpdates(c, own, cells, gameState.initialized,
                                           cellCols, cellRows)
    /\ timers' = Tail(timers)
    /\ UNCHANGED <<GameGrid, gameState, call, last, args, ret>>

CellNext ==
    \/ \E c \in DOMAIN cells : RevealCell(c)
    \/ \E c \in DOMAIN cells : ToggleFlag(c)
    \/ ResetCells
    \/ SetValues
    \/ SatisfactionTimer

CellSpec == CellInit /\ [][CellNext]_vars

\* the flagged in-bounds 8-neighbours of c in a store
flaggedAround(store, c) ==
    {n \in DOMAIN store : /\ store[n].flagged
                          /\ \E i \in 1 .. Len(ALL_DIRECTIONS) : n = step(c, ALL_DIRECTIONS[i])}

\* c is revealed, holds a number from 1 to 8, and as many of its neighbours
\* are flagged
numberMet(store, c) ==
    /\ store[c].revealed
    /\ \E k \in 1 .. 8 : store[c].value = decimal[k] /\ Cardinality(flaggedAround(store, c)) = k

\* C23: isCellSatisfied(x, y) on the handles of the cells is true exactly when
\* the cell is revealed, holds a number from 1 to 8 and has that many flagged
\* in-bounds 8-neighbours; once the timers queued by the reveals, flag changes
\* and value changes have run, the satisfied signal of every cell equals it;
\* and a timer that recomputes the signals changes no cell's value, revealed
\* or flagged state and not the game state.
C23_Satisfaction ==
    [][/\ \A c \in DOMAIN cells' :
            isCellSatisfied(c[1], c[2], cells', cellCols, cellRows) = numberMet(cells', c)
       /\ timers' = << >> => \A c \in DOMAIN cells' : cells'[c].satisfied = numberMet(cells', c)
       /\ Len(timers') < Len(timers) =>
            /\ gameState' = gameState
            /\ \A c \in DOMAIN cells :
                  /\ cells'[c].value = cells[c].value
                  /\ cells'[c].revealed = cells[c].revealed
                  /\ cells'[c].flagged = cells[c].flagged]_vars

\* a timer has just switched the signal of a revealed numbered cell on, after
\* a neighbour was flagged, and no timer is left
C23_Witness ==
    /\ timers = << >>
    /\ gameState.initialized
    /\ \E c \in DOMAIN cells :
          /\ cells[c].satisfied
          /\ flaggedAround(cells, c) # {}

----------------------------------------------------------------------------
(* The mine-edge check on grids drawn freely *)

\* the mines of the grid the search was called with
argMines == minesOf(args.grid, args.width, args.height)

\* C22: doMinesHaveEdgePath returns false for every grid that has at least one
\* mine and in which no mine lies on a board edge.
C22_TrappedMines ==
    /\ searched("doMinesHaveEdgePath")
    /\ argMines # {}
    /\ \A c \in argMines : ~isEdge(c, args.width, args.height)
    => ret.result = FALSE

\* doMinesHaveEdgePath has returned true for a grid whose only mine is interior
C22_Witness ==
    /\ searched("doMinesHaveEdgePath")
    /\ Cardinality(argMines) = 1
    /\ \A c \in argMines : ~isEdge(c, args.width, args.height)
    /\ ret.result = TRUE

----------------------------------------------------------------------------
(* One placement attempt of generateValidBoard, draw by draw:               *)
(* board.tsx:467-499.  call holds the locals of the attempt; call.draws is  *)
(* the number of coordinates drawn so far, call.edgeDraws the number of     *)
(* draws of the first loop and call.edgeMines what it drew (history).       *)

MaxPlaceWidth == 3
MaxPlaceHeight == 3
MaxPlaceMines == 7

\* Mutant: the element at the index is read but not removed.
splice_keep(positions, randomIndex) == positions

\* positions.splice(randomIndex, 1): what is left of the array (index from 1)
splice(positions, randomIndex) ==
    SubSeq(positions, 1, randomIndex - 1) \o SubSeq(positions, randomIndex + 1, Len(positions))

\* board.tsx:470-481: the two arrays, filled in row-major order
positionsOf(settings, reservedCells, startX, startY, edge) ==
    LET keep(c) == /\ ~isReserved(c, reservedCells, startX, startY)
                   /\ isEdge(c, settings.width, settings.height) = edge
    IN  SelectSeq(rowMajor(settings.width, settings.height), keep)

placeSettings ==
    {[width |-> w, height |-> h, mines |-> m] :
        w \in 1 .. MaxPlaceWidth, h \in 1 .. MaxPlaceHeight, m \in 0 .. MaxPlaceMines}

PlaceInit ==
    /\ GameGrid = GameGridInit
    /\ cells = << >>
    /\ gameState = [initialized |-> FALSE, ended |-> FALSE, difficulty |-> "easy"]
    /\ timers = << >>
    /\ last = noLast
    /\ ret = noRet
    /\ \E settings \in placeSettings : \E start \in AllCells(settings.width, settings.height) :
          \E reservedCells \in {getSafeCells(start[1], start[2], settings.width, settings.height,
                                             settings.width * settings.height)} :
          \E edges \in {positionsOf(settings, reservedCells, start[1], start[2], TRUE)} :
             /\ args = [fn |-> "placement", settings |-> settings, startX |-> start[1],
                        startY |-> start[2], reservedCells |-> reservedCells]
             /\ call = [pc |-> "edge",
                        edgePositions |-> edges,
                        centerPositions |-> positionsOf(settings, reservedCells,
                                                        start[1], start[2], FALSE),
                        allPositions |-> << >>,
                        edgeMineCount |-> edgeMineCount(settings.mines, Len(edges)),
                        i |-> 0, placedMines |-> {}, draws |-> 0, edgeDraws |-> 0,
                        edgeMines |-> {}]

\* i < edgeMineCount && edgePositions.length && placedMines.size < settings.mines
edgeLoop_continues ==
    /\ call.i < call.edgeMineCount
    /\ Len(call.edgePositions) > 0
    /\ Cardinality(call.placedMines) < args.settings.mines

\* board.tsx:484-490: one iteration of the for loop over the edge positions
DrawEdge ==
    /\ call.pc = "edge"
    /\ edgeLoop_continues
    /\ \E randomIndex \in 1 .. Len(call.edgePositions) :
          call' = [call EXCEPT !.edgePositions = splice(@, randomIndex),
                               !.placedMines = @ \cup {call.edgePositions[randomIndex]},
                               !.edgeMines = @ \cup {call.edgePositions[randomIndex]},
                               !.draws = @ + 1,
                               !.edgeDraws = @ + 1,
                               !.i = @ + 1]
    /\ UNCHANGED <<GameGrid, cells, gameState, timers, last, args, ret>>

\* board.tsx:492: const allPositions = [...edgePositions, ...centerPositions]
EndEdge ==
    /\ call.pc = "edge"
    /\ ~edgeLoop_continues
    /\ call' = [call EXCEPT !.pc = "rest",
                            !.allPositions = call.edgePositions \o call.centerPositions]
    /\ UNCHANGED <<GameGrid, cells, gameState, timers, last, args, ret>>

\* placedMines.size < settings.mines && allPositions.length
restLoop_continues ==
    Cardinality(call.placedMines) < args.settings.mines /\ Len(call.allPositions) > 0

\* board.tsx:493-499: one iteration of the while loop over all positions
DrawRest ==
    /\ call.pc = "rest"
    /\ restLoop_continues
    /\ \E randomIndex \in 1 .. Len(call.allPositions) :
          call' = [call EXCEPT !.allPositions = splice(@, randomIndex),
                               !.placedMines = @ \cup {call.allPositions[randomIndex]},
                               !.draws = @ + 1]
    /\ UNCHANGED <<GameGrid, cells, gameState, timers, last, args, ret>>

\* the candidate is complete (board.tsx:501)
EndRest ==
    /\ call.pc = "rest"
    /\ ~restLoop_continues
    /\ call' = [call EXCEPT !.pc = "placed"]
    /\ UNCHANGED <<GameGrid, cells, gameState, timers, last, args, ret>>

PlaceNext == DrawEdge \/ EndEdge \/ DrawRest \/ EndRest

PlaceSpec == PlaceInit /\ [][PlaceNext]_vars

\* the placeable coordinates of the attempt: on the edge, and inside
placeableEdge ==
    edgePositions(args.settings, args.reservedCells, args.startX, args.startY)
placeableCenter ==
    centerPositions(args.settings, args.reservedCells, args.startX, args.startY)

\* C24: in every placement attempt the placeable coordinates (all cells but
\* the safe zone and the start cell) are split into edge and center; exactly
\* min(floor(0.3 * mines), |edge|) mines are first drawn from edge, the
\* remainder from the leftover edge cells plus all center cells, and no
\* coordinate is drawn twice.
C24_Placement ==
    call.pc \in {"rest", "placed"} =>
        LET firstCount == Min(floorMul(args.settings.mines, EDGE_MINE_RATIO),
                              Cardinality(placeableEdge))
            first == call.edgeMines
            later == call.placedMines \ first
            pool == (placeableEdge \ first) \cup placeableCenter
        IN  /\ call.edgeDraws = firstCount
            /\ Cardinality(first) = firstCount
            /\ first \subseteq placeableEdge
            /\ later \subseteq pool
            /\ seqToSet(call.allPositions) = pool \ later
            /\ Cardinality(call.placedMines) = call.draws
            /\ call.pc = "placed" =>
                  /\ call.draws = Min(args.settings.mines,
                                      Cardinality(placeableEdge \cup placeableCenter))
                  /\ call.placedMines \in placeMines(args.settings, args.reservedCells,
                                                     args.startX, args.startY)

\* a finished candidate with draws of both loops, from the edge and the center
C24_Witness ==
    /\ call.pc = "placed"
    /\ call.edgeDraws >= 2
    /\ call.draws > call.edgeDraws
    /\ call.placedMines \cap placeableCenter # {}
    /\ placeableEdge \ call.placedMines # {}

----------------------------------------------------------------------------
(* Flags *)

\* the game is Active
active == gameState.initialized /\ ~gameState.ended

\* C25: handleCellFlag toggles the flag of a cell only when the game is
\* Active and the cell is not revealed, and then changes nothing else; in
\* every other case (game NotInitialized or Ended, cell revealed, cell
\* missing) it returns false and leaves every cell and the game state as they
\* are; and a revealed cell never becomes hidden again except through reset.
C25_FlagToggle ==
    [][/\ \A c \in Coordinates(boardWidth, boardHeight) :
            handleCellFlag(c[1], c[2]) =>
               /\ gameState' = gameState
               /\ IF active /\ c \in DOMAIN cells
                  THEN IF cells[c].revealed
                       THEN cells' = cells /\ last'.op = "ignored"
                       ELSE /\ last'.op = "flag"
                            /\ cells'[c].flagged = ~cells[c].flagged
                            /\ cells'[c].revealed = cells[c].revealed
                            /\ cells'[c].value = cells[c].value
                            /\ \A d \in DOMAIN cells \ {c} : cells'[d] = cells[d]
                  ELSE cells' = cells /\ last'.op = "ignored"
       /\ last'.op = "flag" =>
            /\ active
            /\ \E c \in DOMAIN cells :
                  ~cells[c].revealed /\ cells' = [cells EXCEPT ![c].flagged = ~cells[c].flagged]
       /\ \A c \in DOMAIN cells \cap DOMAIN cells' :
            cells[c].revealed /\ ~cells'[c].revealed
               => ~gameState'.initialized /\ cells'[c] = freshCell]_vars

\* a flag has just been set in an Active game in which a cell is revealed
C25_Witness ==
    /\ last.op = "flag"
    /\ active
    /\ \E c \in DOMAIN cells : cells[c].flagged /\ ~cells[c].revealed
    /\ \E c \in DOMAIN cells : cells[c].revealed

----------------------------------------------------------------------------
(* The surroundings of the start cell on the shipped boards *)

\* getSafeCells was called with the size of a shipped difficulty
shippedBoard ==
    \E d \in DOMAIN difficultySettings :
        args.width = difficultySettings[d].width /\ args.height = difficultySettings[d].height

\* the in-bounds 8-neighbours of the start cell
startNeighbours ==
    {n \in AllCells(args.width, args.height) :
        \E i \in 1 .. Len(ALL_DIRECTIONS) :
            n = step(<<args.startX, args.startY>>, ALL_DIRECTIONS[i])}

\* the placement with the most mines: a mine on every cell that is neither in
\* the safe zone nor the start cell
fullPlacement ==
    AllCells(args.width, args.height) \ (ret.safeCells \cup {<<args.startX, args.startY>>})

\* C26: for each shipped difficulty and every in-bounds start coordinate,
\* every in-bounds 8-neighbour of the start cell belongs to the safe zone, so
\* whatever cells outside the safe zone hold mines the start cell's value is
\* "0" and the reveal of the start cell opens a flood.
C26_StartSurrounded ==
    searched("getSafeCells") /\ shippedBoard =>
        /\ startNeighbours \subseteq ret.safeCells
        /\ \E values \in {table(valuesOf(args.width, args.height, fullPlacement))} :
              /\ values[<<args.startX, args.startY>>] = "0"
              /\ \E r \in {revealCellAndFloodfill(args.startX, args.startY,
                                                  storeOf(values, {}, {}),
                                                  args.width, args.height)} :
                    /\ Len(r.floods) = 1
                    /\ startNeighbours \subseteq seqToSet(r.calls)

\* a corner start on a shipped board whose three neighbours are in the safe zone
C26_Witness ==
    /\ searched("getSafeCells")
    /\ shippedBoard
    /\ args.startX = 0 /\ args.startY = args.height - 1
    /\ Cardinality(startNeighbours) = 3
    /\ startNeighbours \subseteq ret.safeCells

----------------------------------------------------------------------------
(* The grid left over from the previous game *)

\* the candidates the attempt under way can draw
candidates == placeMinesOf[call.difficulty][<<call.startX, call.startY>>]

\* countAdjacentMines at every position when no game has been played: GameGrid is [[]]
firstGameCounts(settings) ==
    adjacentMineCounts(GameGridInit, settings.width, settings.height)

\* C27: whether generateValidBoard accepts or rejects a candidate depends only
\* on its arguments and its draws: with the grid left over from the previous
\* game every candidate gets the verdict it gets in a first game, where
\* GameGrid is [[]].
C27_GridIndependent ==
    call.pc = "attempt" =>
        \A placedMines \in candidates :
            candidateValid(call.difficulty, placedMines,
                           adjacentMineCounts(GameGrid, call.settings.width, call.settings.height))
            = candidateValid(call.difficulty, placedMines, firstGameCounts(call.settings))

\* an attempt of a later game in which a candidate that a first game accepts
\* is rejected because of the grid of the game before
C27_Witness ==
    /\ call.pc = "attempt"
    /\ GameGrid # GameGridInit
    /\ \E placedMines \in candidates :
          /\ candidateValid(call.difficulty, placedMines, firstGameCounts(call.settings))
          /\ ~candidateValid(call.difficulty, placedMines,
                             adjacentMineCounts(GameGrid, call.settings.width,
                                                call.settings.height))

----------------------------------------------------------------------------
(* The deferred first reveal and the game state *)

\* C28: whenever the game is NotInitialized, every cell is hidden and
\* unflagged, under every interleaving of click, flag, resetGame,
\* changeDifficulty and the deferred first-reveal timer.
C28_HiddenUntilInitialized ==
    ~gameState.initialized =>
        \A c \in DOMAIN cells : ~cells[c].revealed /\ ~cells[c].flagged

\* the deferred reveal of a click has run after a reset and has revealed a
\* cell of a game that is NotInitialized
C28_Witness ==
    /\ last.op = "firstReveal"
    /\ ~gameState.initialized
    /\ \E c \in DOMAIN cells : cells[c].revealed

----------------------------------------------------------------------------
(* The flood and the mines *)

\* C29: on a board whose stored values are the true adjacent-mine counts,
\* revealConnectedCells started on a non-mine cell never calls revealCell on
\* a cell whose value is "M", whatever cells are already revealed or flagged.
C29_FloodSparesMines ==
    searched("revealConnectedCells") =>
        \A i \in 1 .. Len(ret.calls) : args.store[ret.calls[i]].value # "M"

\* a flood over several cells of a board that has a mine and a flagged cell
C29_Witness ==
    /\ searched("revealConnectedCells")
    /\ Len(ret.calls) >= 4
    /\ \E c \in DOMAIN args.store : args.store[c].value = "M"
    /\ \E c \in DOMAIN args.store : args.store[c].flagged /\ args.store[c].value # "M"

----------------------------------------------------------------------------
(* Edge mines on the shipped boards *)

\* the shipped settings whose board getSafeCells was called with
shippedSettings ==
    {difficultySettings[d] : d \in {e \in DOMAIN difficultySettings :
        /\ args.width = difficultySettings[e].width
        /\ args.height = difficultySettings[e].height}}

\* the first k entries of a sequence
firstOf(positions, k) == {positions[i] : i \in 1 .. Min(k, Len(positions))}

\* the candidate with the fewest mines on the edge: the draws of the first
\* loop, and every later draw from the center
fewestEdgeMines(settings, reservedCells, startX, startY) ==
    LET edge == positionsOf(settings, reservedCells, startX, startY, TRUE)
        center == positionsOf(settings, reservedCells, startX, startY, FALSE)
        first == Min(edgeMineCount(settings.mines, Len(edge)), settings.mines)
    IN  firstOf(edge, first) \cup firstOf(center, settings.mines - first)

====
